---- MODULE Spec2Model ----
(***************************************************************************)
(* Model of gwi, the Git Worktree Issue CLI: one worktree per issue, a     *)
(* pull request per branch and a project-board status per issue.  The      *)
(* tool writes the board and never reads a status back, so the board is    *)
(* present as the calls made to it.                                        *)
(*                                                                         *)
(* Strings of the program are sequences of one-character strings, so that  *)
(* formatting (Itoa, Sprintf) and parsing (Atoi, the regular expressions)  *)
(* are computed character by character, as the code does.                  *)
(***************************************************************************)
EXTENDS Integers, Sequences, FiniteSets, TLC

(***************************************************************************)
(* Bounds of the model.                                                    *)
(***************************************************************************)
\* how many issues of IssuePool exist in the tracker
MaxIssues == 1
\* how many commands one behaviour runs
MaxRuns == 3
\* the most board items one issue is linked to
MaxItems == 3
\* the board items linked to an issue when a command updates the board
MaxLinked == 1
\* the most pull requests the tracker holds
MaxPRs == 2
\* the runs of one behaviour in which an external call may fail
MaxFaulty == 1
\* the longest of the short issue titles
MaxTitleLen == 3
MaxOptions == 3
\* the directories RemoveWorktree is tried on
MaxPaths == 2
\* the calls of GetProjectField in one process
MaxCalls == 3

(***************************************************************************)
(* Characters and strings.                                                 *)
(***************************************************************************)
Digits == <<"0", "1", "2", "3", "4", "5", "6", "7", "8", "9">>
Lowers == <<"a", "b", "c", "d", "e", "f", "g", "h", "i", "j", "k", "l", "m",
            "n", "o", "p", "q", "r", "s", "t", "u", "v", "w", "x", "y", "z">>
Uppers == <<"A", "B", "C", "D", "E", "F", "G", "H", "I", "J", "K", "L", "M",
            "N", "O", "P", "Q", "R", "S", "T", "U", "V", "W", "X", "Y", "Z">>

IsDigit(c) == \E i \in 1..Len(Digits) : Digits[i] = c
IsLower(c) == \E i \in 1..Len(Lowers) : Lowers[i] = c
IsUpper(c) == \E i \in 1..Len(Uppers) : Uppers[i] = c

DigitVal(c) == (CHOOSE i \in 1..Len(Digits) : Digits[i] = c) - 1

\* byte order of the characters the model uses: punctuation below '-',
\* '-' (45), '/' (47), digits, upper case, '[' (91), ']' (93), '_' (95),
\* lower case
Ord(c) ==
    IF c = "-" THEN 45
    ELSE IF c = "/" THEN 47
    ELSE IF IsDigit(c) THEN 48 + DigitVal(c)
    ELSE IF IsUpper(c) THEN 64 + (CHOOSE i \in 1..Len(Uppers) : Uppers[i] = c)
    ELSE IF c = "[" THEN 91
    ELSE IF c = "]" THEN 93
    ELSE IF c = "_" THEN 95
    ELSE IF IsLower(c) THEN 96 + (CHOOSE i \in 1..Len(Lowers) : Lowers[i] = c)
    ELSE 32

\* s < t in the byte-wise order of sort.Strings
RECURSIVE StrLess(_, _)
StrLess(s, t) ==
    IF t = <<>> THEN FALSE
    ELSE IF s = <<>> THEN TRUE
    ELSE IF Ord(Head(s)) # Ord(Head(t)) THEN Ord(Head(s)) < Ord(Head(t))
    ELSE StrLess(Tail(s), Tail(t))

HasPrefix(s, p) == Len(s) >= Len(p) /\ SubSeq(s, 1, Len(p)) = p

\* strings.Index(s, c) for a one-character c: 0-based, -1 when absent
IndexOf(s, c) ==
    IF \E i \in 1..Len(s) : s[i] = c
    THEN (CHOOSE i \in 1..Len(s) : s[i] = c /\ \A j \in 1..(i - 1) : s[j] # c) - 1
    ELSE -1

\* strconv.Itoa
RECURSIVE ItoaNat(_)
ItoaNat(n) ==
    IF n < 10 THEN <<Digits[n + 1]>>
    ELSE ItoaNat(n \div 10) \o <<Digits[(n % 10) + 1]>>

Itoa(n) == IF n < 0 THEN <<"-">> \o ItoaNat(0 - n) ELSE ItoaNat(n)

RECURSIVE DigitsVal(_, _)
DigitsVal(s, acc) ==
    IF s = <<>> THEN acc ELSE DigitsVal(Tail(s), acc * 10 + DigitVal(Head(s)))

\* strconv.Atoi: an optional sign and at least one digit, nothing else
Atoi(s) ==
    LET signed == s # <<>> /\ Head(s) \in {"+", "-"}
        body == IF signed THEN Tail(s) ELSE s
    IN  IF body = <<>> \/ \E i \in 1..Len(body) : ~IsDigit(body[i])
        THEN [ok |-> FALSE, num |-> 0]
        ELSE [ok |-> TRUE,
              num |-> IF signed /\ Head(s) = "-" THEN 0 - DigitsVal(body, 0)
                      ELSE DigitsVal(body, 0)]

\* length of the longest run of digits that starts at position i (1-based)
RECURSIVE DigitRun(_, _)
DigitRun(s, i) ==
    IF i > Len(s) \/ ~IsDigit(s[i]) THEN 0 ELSE 1 + DigitRun(s, i + 1)

(***************************************************************************)
(* Slugify.                                                                *)
(***************************************************************************)
SlugMax == 50

ToLowerChar(c) ==
    IF IsUpper(c) THEN Lowers[CHOOSE i \in 1..Len(Uppers) : Uppers[i] = c] ELSE c

IsSlugChar(c) == IsLower(c) \/ IsDigit(c)

\* regexp [^a-z0-9]+ replaced by "-": every maximal run becomes one dash
RECURSIVE ReplaceRuns(_, _)
ReplaceRuns(s, inRun) ==
    IF s = <<>> THEN <<>>
    ELSE IF IsSlugChar(Head(s)) THEN <<Head(s)>> \o ReplaceRuns(Tail(s), FALSE)
    ELSE IF inRun THEN ReplaceRuns(Tail(s), TRUE)
    ELSE <<"-">> \o ReplaceRuns(Tail(s), TRUE)

RECURSIVE TrimLeftDash(_)
TrimLeftDash(s) ==
    IF s # <<>> /\ Head(s) = "-" THEN TrimLeftDash(Tail(s)) ELSE s

RECURSIVE TrimRightDash(_)
TrimRightDash(s) ==
    IF s # <<>> /\ s[Len(s)] = "-" THEN TrimRightDash(SubSeq(s, 1, Len(s) - 1)) ELSE s

\* the slug cut at SlugMax and left as cut
SlugifyCut(title) ==
    LET lower == [i \in 1..Len(title) |-> ToLowerChar(title[i])]
        trimmed == TrimRightDash(TrimLeftDash(ReplaceRuns(lower, FALSE)))
    IN  IF Len(trimmed) > SlugMax THEN SubSeq(trimmed, 1, SlugMax) ELSE trimmed

Slugify(title) ==
    LET lower == [i \in 1..Len(title) |-> ToLowerChar(title[i])]
        dashed == ReplaceRuns(lower, FALSE)
        trimmed == TrimRightDash(TrimLeftDash(dashed))
    IN  IF Len(trimmed) > SlugMax
        THEN TrimRightDash(SubSeq(trimmed, 1, SlugMax))
        ELSE trimmed

(***************************************************************************)
(* The parsers that recover an issue number from a name.                   *)
(***************************************************************************)
\* regexp ^(\d+)- followed by Atoi of the group
LeadingIssue(dirname) ==
    LET k == DigitRun(dirname, 1)
    IN  IF k >= 1 /\ Len(dirname) > k /\ dirname[k + 1] = "-"
        THEN Atoi(SubSeq(dirname, 1, k))
        ELSE [ok |-> FALSE, num |-> 0]

\* DetectIssueNumber: cwd is the path below the base, as the sequence of its
\* components; <<>> is a directory outside the base
DetectIssueNumber(cwdParts) ==
    IF cwdParts = <<>> THEN [ok |-> FALSE, num |-> 0]
    ELSE LeadingIssue(cwdParts[1])

\* regexp (?:^|/)(\d+)[-_] : the leftmost start, at the beginning or after
\* a slash, where a run of digits is followed by '-' or '_'
ParseIssueFromBranch(branchName) ==
    LET starts == {i \in 1..Len(branchName) :
                      /\ (i = 1 \/ branchName[i - 1] = "/")
                      /\ DigitRun(branchName, i) >= 1
                      /\ i + DigitRun(branchName, i) <= Len(branchName)
                      /\ branchName[i + DigitRun(branchName, i)] \in {"-", "_"}}
    IN  IF starts = {} THEN [ok |-> FALSE, num |-> 0]
        ELSE LET i == CHOOSE j \in starts : \A k \in starts : j <= k
             IN  Atoi(SubSeq(branchName, i, i + DigitRun(branchName, i) - 1))

\* getExistingWorktreeIssues, for one directory name
ExistingIssueOf(dir) ==
    LET idx == IndexOf(dir, "-")
    IN  IF idx > 0 THEN Atoi(SubSeq(dir, 1, idx)) ELSE [ok |-> FALSE, num |-> 0]

\* selectWorktree, for one directory name: the option value is the text
\* before the first '-', and the selected value goes through Atoi
SelectValueOf(name) ==
    LET idx == IndexOf(name, "-")
    IN  IF idx > 0 THEN Atoi(SubSeq(name, 1, idx)) ELSE [ok |-> FALSE, num |-> 0]

\* filepath.Glob(base/N-*) restricted to the names present: sorted, first
WorktreeMatches(names, issueNumber) ==
    {d \in names : HasPrefix(d, Itoa(issueNumber) \o <<"-">>)}

FindWorktreeByIssue(names, issueNumber) ==
    LET m == WorktreeMatches(names, issueNumber)
    IN  IF m = {} THEN <<>>
        ELSE CHOOSE d \in m : \A e \in m : e = d \/ StrLess(d, e)

(***************************************************************************)
(* The tracker and the repository the commands act on.                     *)
(***************************************************************************)
\* the issues of the tracker, with their titles
IssuePool == <<42, 4, 7>>

Min(a, b) == IF a < b THEN a ELSE b

SetMax(S) == CHOOSE m \in S : \A e \in S : e <= m

Issues == {IssuePool[i] : i \in 1..Min(MaxIssues, Len(IssuePool))}

TitleOf(n) ==
    IF n = 42 THEN <<"F", "i", "x", " ", "2", " ", "b", "!">>
    ELSE IF n = 4 THEN <<"!", "!">>
    ELSE <<"A", "_", "b">>

\* config.GitHubConfig: the four status values
TodoValue == "Todo"
InProgressValue == "In Progress"
InReviewValue == "In Review"
DoneValue == "Done"

VARIABLES
    dirs,     \* names of the worktree directories under the base path
    dirty,    \* the directories that hold uncommitted changes
    wtmeta,   \* the worktrees the VCS bookkeeping knows
    lbr,      \* local branches
    rbr,      \* branches on origin
    prs,      \* pull requests: number -> [head, state]
    closed,   \* closed issues
    mainLocal,  \* branches merged into the local main branch
    mainOrigin, \* branches whose merge is on origin's main branch
    cwd,      \* <<>> outside the base path, <<name>> inside worktree name
    run,      \* the last command run: its flags, calls, output and outcome
    nruns,    \* commands run so far
    nfaulty   \* the runs among them in which an external call failed

vars == <<dirs, dirty, wtmeta, lbr, rbr, prs, closed, mainLocal, mainOrigin,
          cwd, run, nruns, nfaulty>>

World == [dirs |-> dirs, dirty |-> dirty, wtmeta |-> wtmeta, lbr |-> lbr,
          rbr |-> rbr, prs |-> prs, closed |-> closed,
          mainLocal |-> mainLocal, mainOrigin |-> mainOrigin]

\* no command is running
NoRun == [cmd |-> "none"]

\* one external call or prompt of a run
CallRec(op, name, num, val) == [op |-> op, name |-> name, num |-> num, val |-> val]

\* the state of a command in progress: the world, what it did so far, and
\* whether it still runs, returned, or died (config.Die: os.Exit(1))
Begin(w) == [w |-> w, calls |-> <<>>, out |-> <<>>, warns |-> <<>>,
             exit |-> "run", msg |-> ""]

Running(st) == st.exit = "run"

Die(st, m) == IF Running(st) THEN [st EXCEPT !.exit = "die", !.msg = m] ELSE st

Return(st) == IF Running(st) THEN [st EXCEPT !.exit = "ok"] ELSE st

Call(st, op, name, num, val) ==
    [st EXCEPT !.calls = Append(@, CallRec(op, name, num, val))]

\* a line on standard output; at is the number of external calls the run
\* had made when it wrote the line
Println(st, kind, text) ==
    [st EXCEPT !.out = Append(@, [kind |-> kind, text |-> text,
                                  at |-> Len(st.calls)])]

\* config.Info and config.Success print to standard output
Info(st) == Println(st, "info", <<>>)

\* config.Warn prints to standard output
Warn(st, m) == [Println(st, "warn", <<>>) EXCEPT !.warns = Append(@, m)]

(***************************************************************************)
(* Branch/Worktree Manager.                                                *)
(***************************************************************************)
\* git worktree remove path [--force]: refused for a worktree the
\* bookkeeping does not know, for a missing directory, and, without
\* --force, for one with uncommitted changes; gitFail is any other failure
GitWorktreeRemoveOk(w, path, force, gitFail) ==
    /\ ~gitFail
    /\ path \in w.wtmeta
    /\ path \in w.dirs
    /\ (force \/ path \notin w.dirty)

\* a RemoveWorktree that reports the refusal of git and deletes nothing
RemoveWorktreeGitOnly(st, path, force, genv) ==
    LET s1 == Call(st, "worktree_remove", path, 0, IF force THEN "force" ELSE "")
    IN  IF GitWorktreeRemoveOk(st.w, path, force, genv.gitFail)
        THEN [st |-> [s1 EXCEPT !.w.dirs = @ \ {path}, !.w.dirty = @ \ {path},
                                !.w.wtmeta = @ \ {path}],
              err |-> ""]
        ELSE [st |-> s1, err |-> "git worktree remove failed"]

\* RemoveWorktree: the result is [st, err], err = "" for nil
RemoveWorktree(st, path, force, genv) ==
    LET s1 == Call(st, "worktree_remove", path, 0, IF force THEN "force" ELSE "")
    IN  IF GitWorktreeRemoveOk(st.w, path, force, genv.gitFail)
        THEN [st |-> [s1 EXCEPT !.w.dirs = @ \ {path}, !.w.dirty = @ \ {path},
                                !.w.wtmeta = @ \ {path}],
              err |-> ""]
        ELSE IF path \in st.w.dirs
        THEN LET s2 == Call(s1, "remove_all", path, 0, "")
             IN  IF genv.rmAllFail
                 THEN [st |-> s2, err |-> "git and manual removal failed"]
                 ELSE [st |-> [s2 EXCEPT !.w.dirs = @ \ {path},
                                         !.w.dirty = @ \ {path}],
                       err |-> ""]
        ELSE [st |-> s1, err |-> "git worktree remove failed"]

\* git worktree prune: forgets the worktrees whose directory is gone
PruneWorktrees(st) ==
    [Call(st, "prune", <<>>, 0, "") EXCEPT !.w.wtmeta = @ \cap st.w.dirs]

HasUncommittedChanges(w, path) == path \in w.dirty

BranchExists(w, branchName) == branchName \in w.lbr

RemoteBranchExists(w, branchName) == branchName \in w.rbr

\* git branch -D: refused for a branch that a known worktree has checked out
DeleteBranch(st, branchName, fail) ==
    LET s1 == Call(st, "delete_branch", branchName, 0, "")
    IN  IF ~fail /\ branchName \in st.w.lbr /\ branchName \notin st.w.wtmeta
        THEN [st |-> [s1 EXCEPT !.w.lbr = @ \ {branchName}], err |-> ""]
        ELSE [st |-> s1, err |-> "git branch -D failed"]

\* git push origin --delete
DeleteRemoteBranch(st, branchName, fail) ==
    LET s1 == Call(st, "delete_remote_branch", branchName, 0, "")
    IN  IF ~fail /\ branchName \in st.w.rbr
        THEN [st |-> [s1 EXCEPT !.w.rbr = @ \ {branchName}], err |-> ""]
        ELSE [st |-> s1, err |-> "git push --delete failed"]

\* git push -u origin branch, run inside the worktree
Push(st, path, branchName, fail) ==
    LET s1 == Call(st, "push", branchName, 0, "")
    IN  IF fail THEN [st |-> s1, err |-> "push failed"]
        ELSE [st |-> [s1 EXCEPT !.w.rbr = @ \cup {branchName}], err |-> ""]

(***************************************************************************)
(* Issue/PR Tracker Client.                                                *)
(***************************************************************************)
\* the tracker numbers issues and pull requests from one counter
NewPRNumber(w) == SetMax(Issues \cup DOMAIN w.prs) + 1

\* A body with another keyword in front of the issue reference.
ClosesBodyFixes(issueNumber) ==
    <<"F", "i", "x", "e", "s", " ", "#">> \o Itoa(issueNumber)

\* fmt.Sprintf("Closes #%d", issueNumber)
ClosesBody(issueNumber) ==
    <<"C", "l", "o", "s", "e", "s", " ", "#">> \o Itoa(issueNumber)

\* gh pr create --title --body --head
CreatePR(st, path, body, branchName, fail) ==
    LET s1 == Call(st, "pr_create", branchName, 0, "")
        p == NewPRNumber(st.w)
    IN  IF fail THEN [st |-> s1, err |-> "failed to create PR", num |-> 0]
        ELSE [st |-> [s1 EXCEPT !.w.prs =
                         [q \in DOMAIN @ \cup {p} |->
                             IF q = p THEN [head |-> branchName, state |-> "OPEN",
                                            body |-> body]
                             ELSE @[q]]],
              err |-> "", num |-> p]

\* gh pr list lists open pull requests unless a --state is given
ListedPRs(w) == {p \in DOMAIN w.prs : w.prs[p].state = "OPEN"}

\* gh pr list --head branch --json number --jq .[0].number: newest first
GetPRForBranch(w, branchName, fail) ==
    LET found == {p \in ListedPRs(w) : w.prs[p].head = branchName}
    IN  IF fail THEN [err |-> "lookup failed", num |-> 0]
        ELSE IF found = {} THEN [err |-> "no PR found for branch", num |-> 0]
        ELSE [err |-> "", num |-> SetMax(found)]

\* gh pr view N --json state
GetPRState(w, prNumber, fail) ==
    IF fail \/ prNumber \notin DOMAIN w.prs THEN [err |-> "view failed", state |-> ""]
    ELSE [err |-> "", state |-> w.prs[prNumber].state]

IsPRMerged(w, prNumber, fail) ==
    LET r == GetPRState(w, prNumber, fail)
    IN  IF r.err # "" THEN [err |-> r.err, merged |-> FALSE]
        ELSE [err |-> "", merged |-> r.state = "MERGED"]

\* a check filter that reports every check
GetFailingChecksAll(checks) ==
    {i \in 1..Len(checks) : TRUE}

\* GetFailingChecks: the checks whose conclusion is FAILURE
GetFailingChecks(checks) ==
    {i \in 1..Len(checks) : checks[i] = "FAILURE"}

\* the issues the tracker closes when the PR is merged: those its body names
ClosedBy(w, prNumber) == {n \in Issues : w.prs[prNumber].body = ClosesBody(n)}

\* gh pr merge N --<strategy> --delete-branch
MergePR(st, prNumber, fail) ==
    LET s1 == Call(st, "pr_merge", <<>>, prNumber, "")
    IN  IF fail \/ prNumber \notin DOMAIN st.w.prs
           \/ st.w.prs[prNumber].state # "OPEN"
        THEN [st |-> s1, err |-> "merge failed"]
        ELSE [st |-> [s1 EXCEPT !.w.prs[prNumber].state = "MERGED",
                                !.w.rbr = @ \ {st.w.prs[prNumber].head},
                                !.w.closed = @ \cup ClosedBy(st.w, prNumber)],
              err |-> ""]

\* gh issue comment
CommentOnIssue(st, issueNumber) == Call(st, "issue_comment", <<>>, issueNumber, "")

\* CloseIssue with a non-empty comment: comment, then gh issue close
CloseIssue(st, issueNumber, commentFail, closeFail) ==
    LET s1 == CommentOnIssue(st, issueNumber)
    IN  IF commentFail THEN [st |-> s1, err |-> "failed to add comment"]
        ELSE LET s2 == Call(s1, "issue_close", <<>>, issueNumber, "")
             IN  IF closeFail THEN [st |-> s2, err |-> "failed to close issue"]
                 ELSE [st |-> [s2 EXCEPT !.w.closed = @ \cup {issueNumber}],
                       err |-> ""]

(***************************************************************************)
(* Project Board Synchronizer.                                             *)
(***************************************************************************)
NoErr == [kind |-> "", item |-> 0]

\* the messages UpdateIssueStatus prints in verbose mode only
VerboseInfo(st, verbose) == IF verbose THEN Info(st) ELSE st

VerboseWarn(st, verbose, m) == IF verbose THEN Warn(st, m) ELSE st

\* how the three steps for one board item can end
ItemOutcomes == {"ok", "field", "option", "write"}

\* one iteration of the loop of UpdateIssueStatus over the linked items:
\* acc = [st, lastErr, successCount]
StatusItem(acc, issueNumber, i, outcome, statusValue, verbose) ==
    LET s1 == Call(acc.st, "board_field", Itoa(i), issueNumber, "")
    IN  IF outcome = "field"
        THEN [acc EXCEPT !.st = VerboseWarn(s1, verbose, "Could not get field"),
                         !.lastErr = [kind |-> "field", item |-> i]]
        ELSE IF outcome = "option"
        THEN [acc EXCEPT !.st = VerboseWarn(s1, verbose, "Could not find option"),
                         !.lastErr = [kind |-> "option", item |-> i]]
        ELSE LET s2 == Call(VerboseInfo(s1, verbose), "board_write", Itoa(i),
                            issueNumber, statusValue)
             IN  IF outcome = "write"
                 THEN [acc EXCEPT !.st = VerboseWarn(s2, verbose,
                                                     "Failed to update project item"),
                                  !.lastErr = [kind |-> "write", item |-> i]]
                 ELSE [acc EXCEPT !.st = s2, !.successCount = @ + 1]

RECURSIVE StatusLoop(_, _, _, _, _, _)
StatusLoop(acc, issueNumber, outs, i, statusValue, verbose) ==
    IF i > Len(outs) THEN acc
    ELSE StatusLoop(StatusItem(acc, issueNumber, i, outs[i], statusValue, verbose),
                    issueNumber, outs, i + 1, statusValue, verbose)

\* a result that reports the last error whatever was written
StatusResultAny(acc) ==
    acc.lastErr

\* the result after the loop: the last error when nothing was written
StatusResult(acc) ==
    IF acc.successCount = 0 /\ acc.lastErr # NoErr THEN acc.lastErr ELSE NoErr

\* an item lookup that takes an issue on no board for a failure
StatusAfterScopesStrict(st, issueNumber, statusValue, benv, verbose) ==
    LET s1 == Call(VerboseInfo(st, verbose), "board_items", <<>>, issueNumber, "")
    IN  IF benv.pre = "items" \/ Len(benv.outs) = 0
        THEN [st |-> VerboseWarn(s1, verbose, "Failed to get project items"),
              err |-> [kind |-> "items", item |-> 0]]
        ELSE LET acc == StatusLoop([st |-> VerboseInfo(s1, verbose),
                                    lastErr |-> NoErr, successCount |-> 0],
                                   issueNumber, benv.outs, 1, statusValue, verbose)
             IN  [st |-> IF acc.successCount > 0 THEN VerboseInfo(acc.st, verbose)
                         ELSE acc.st,
                  err |-> StatusResult(acc)]

\* UpdateIssueStatus from the item lookup on
StatusAfterScopes(st, issueNumber, statusValue, benv, verbose) ==
    LET s1 == Call(VerboseInfo(st, verbose), "board_items", <<>>, issueNumber, "")
    IN  IF benv.pre = "items"
        THEN [st |-> VerboseWarn(s1, verbose, "Failed to get project items"),
              err |-> [kind |-> "items", item |-> 0]]
        ELSE IF Len(benv.outs) = 0
        THEN [st |-> VerboseInfo(s1, verbose), err |-> NoErr]
        ELSE LET acc == StatusLoop([st |-> VerboseInfo(s1, verbose),
                                    lastErr |-> NoErr, successCount |-> 0],
                                   issueNumber, benv.outs, 1, statusValue, verbose)
             IN  [st |-> IF acc.successCount > 0 THEN VerboseInfo(acc.st, verbose)
                         ELSE acc.st,
                  err |-> StatusResult(acc)]

\* what the board's side of one UpdateIssueStatus call can be: the CLI
\* missing, the scope check failing, the item lookup failing, or the
\* outcomes of the linked items, one per item
BoardEnvs ==
    [pre : {"nogh", "scope", "items"}, outs : {<<>>}]
    \cup [pre : {"ok"}, outs : UNION {[1..k -> ItemOutcomes] : k \in 0..MaxItems}]

\* UpdateIssueStatus: the result is [st, err], err = NoErr for nil
UpdateIssueStatus(st, issueNumber, statusValue, benv, verbose) ==
    LET s0 == VerboseInfo(st, verbose)
    IN  IF benv.pre = "nogh"
        THEN [st |-> VerboseWarn(s0, verbose, "gh CLI not found in PATH"),
              err |-> [kind |-> "nogh", item |-> 0]]
        ELSE LET sc == Call(VerboseInfo(s0, verbose), "scope_check", <<>>,
                            issueNumber, "")
             IN  IF benv.pre = "scope"
                 THEN [st |-> VerboseWarn(sc, verbose, "Scope check failed"),
                       err |-> [kind |-> "scope", item |-> 0]]
                 ELSE StatusAfterScopes(VerboseInfo(sc, verbose), issueNumber,
                                        statusValue, benv, verbose)

(***************************************************************************)
(* Resolving the issue a command is about.                                 *)
(***************************************************************************)
\* os.Getwd fails in a directory that was deleted; the callers treat that
\* like a directory outside the base path
Getwd(w, cwdv) == IF cwdv # <<>> /\ cwdv[1] \notin w.dirs THEN <<>> ELSE cwdv

IsInsideWorktree(w, cwdv, worktreePath) ==
    Getwd(w, cwdv) # <<>> /\ Getwd(w, cwdv)[1] = worktreePath

\* selectWorktree: the operator picks the option of directory `pick`, or
\* none (<<>>); only names with text before a '-' are offered
SelectWorktree(w, pick) ==
    IF pick \in w.dirs /\ IndexOf(pick, "-") > 0
    THEN SelectValueOf(pick)
    ELSE [ok |-> FALSE, num |-> 0]

\* what the operator typed and picked: kind "arg" with the number n, kind
\* "bad" for an argument that is no number, kind "none" with the directory
\* picked in the selector
Inputs(w) ==
    [kind : {"arg"}, n : Issues \cup DOMAIN w.prs, pick : {<<>>}]
    \cup [kind : {"bad"}, n : {0}, pick : {<<>>}]
    \cup [kind : {"none"}, n : {0}, pick : w.dirs \cup {<<>>}]

\* pr and merge: the argument, else the current directory, else the selector
ResolveIssue(w, cwdv, in) ==
    IF in.kind = "arg" THEN [ok |-> TRUE, num |-> in.n, msg |-> ""]
    ELSE IF in.kind = "bad" THEN [ok |-> FALSE, num |-> 0, msg |-> "Invalid issue number"]
    ELSE IF DetectIssueNumber(Getwd(w, cwdv)).ok
    THEN [ok |-> TRUE, num |-> DetectIssueNumber(Getwd(w, cwdv)).num, msg |-> ""]
    ELSE IF SelectWorktree(w, in.pick).ok
    THEN [ok |-> TRUE, num |-> SelectWorktree(w, in.pick).num, msg |-> ""]
    ELSE [ok |-> FALSE, num |-> 0, msg |-> "No worktree selected"]

\* rm: the argument, else always the selector
ResolveIssueRm(w, in) ==
    IF in.kind = "arg" THEN [ok |-> TRUE, num |-> in.n, msg |-> ""]
    ELSE IF in.kind = "bad" THEN [ok |-> FALSE, num |-> 0, msg |-> "Invalid issue number"]
    ELSE IF SelectWorktree(w, in.pick).ok
    THEN [ok |-> TRUE, num |-> SelectWorktree(w, in.pick).num, msg |-> ""]
    ELSE [ok |-> FALSE, num |-> 0, msg |-> "No worktree selected"]

\* config.Load: the settings a run reads
Configs ==
    [projectsEnabled : {FALSE}, verbose : {FALSE}, mainBranch : {"main", "master"}]
    \cup [projectsEnabled : {TRUE}, verbose : BOOLEAN, mainBranch : {"main"}]

\* a board step that gives up the command when the update fails
BoardStepFatal(st, cfg, issueNum, statusValue, benv) ==
    LET r == UpdateIssueStatus(st, issueNum, statusValue, benv, cfg.verbose)
    IN  IF r.err # NoErr THEN Die(r.st, "Failed to update project status")
        ELSE Info(r.st)

\* the board step shared by the commands: a failure is only warned about,
\* and only in verbose mode
BoardStep(st, cfg, issueNum, statusValue, benv) ==
    LET r == UpdateIssueStatus(st, issueNum, statusValue, benv, cfg.verbose)
    IN  IF r.err # NoErr
        THEN IF cfg.verbose THEN Warn(r.st, "Failed to update project status")
             ELSE r.st
        ELSE Info(r.st)

(***************************************************************************)
(* rm.                                                                     *)
(***************************************************************************)
RmFlags == [force : BOOLEAN, yes : BOOLEAN, deleteBranch : BOOLEAN]

\* how a removal can go: the VCS decides and a needed recursive deletion
\* works, the VCS fails and the recursive deletion works, or both fail
RemovalEnvs ==
    {[gitFail |-> FALSE, rmAllFail |-> FALSE], [gitFail |-> TRUE, rmAllFail |-> FALSE],
     [gitFail |-> TRUE, rmAllFail |-> TRUE]}

RemovalOk == [gitFail |-> FALSE, rmAllFail |-> FALSE]

\* a removal and the forced second attempt that follows its failure
RemovalPairs ==
    {<<r, RemovalOk>> : r \in {e \in RemovalEnvs : ~e.rmAllFail}}
    \cup {<<r, q>> : r \in {e \in RemovalEnvs : e.rmAllFail}, q \in RemovalEnvs}

BoardOff == [pre |-> "ok", outs |-> <<>>]

\* the board's side as the commands meet it: the scope check fails, or each
\* linked item is written or refuses the write
BoardCases(cfg) ==
    IF cfg.projectsEnabled
    THEN {e \in BoardEnvs : e.pre \in {"scope", "ok"} /\ Len(e.outs) <= MaxLinked
                             /\ \A i \in DOMAIN e.outs : e.outs[i] \in {"ok", "write"}}
    ELSE {BoardOff}

\* the outcomes of the external calls of one rm run; the calls that the
\* flags and the settings rule out get no alternatives
RmEnv(c, l, m, r, b, d) ==
    [confirm |-> c, prLookupFail |-> l = "list", prStateFail |-> l = "view",
     mainPathFail |-> m, gitFail |-> r.gitFail, rmAllFail |-> r.rmAllFail,
     board |-> b, delLocalFail |-> d[1], delRemoteFail |-> d[2]]

\* the outcomes of the external calls of one rm run; a call that the flags,
\* the settings or the repository rule out gets no alternatives: the PR
\* lookup when the branch has no listed PR, the main path when the operator
\* is elsewhere, the branch deletions when no branch is to be deleted, and
\* what follows a refusal or a failed removal
RmEnvs(w, cwdv, worktreePath, flags, cfg) ==
    LET ls == IF ~flags.deleteBranch /\ GetPRForBranch(w, worktreePath, FALSE).err = ""
              THEN {"none", "list", "view"} ELSE {"none"}
        ms == IF IsInsideWorktree(w, cwdv, worktreePath) THEN BOOLEAN ELSE {FALSE}
        ds == IF flags.deleteBranch \/ IsPRMerged(w, GetPRForBranch(w, worktreePath, FALSE).num,
                                                  FALSE).merged
              THEN BOOLEAN \X BOOLEAN ELSE {<<FALSE, FALSE>>}
    IN  {RmEnv(FALSE, l, FALSE, RemovalOk, BoardOff, <<FALSE, FALSE>>) :
            l \in IF flags.yes THEN {} ELSE ls}
        \cup {RmEnv(TRUE, l, m, r, BoardOff, <<FALSE, FALSE>>) :
                l \in ls, m \in ms, r \in {e \in RemovalEnvs : e.rmAllFail}}
        \cup {RmEnv(TRUE, l, m, r, b, d) :
                l \in ls, m \in ms, r \in {e \in RemovalEnvs : ~e.rmAllFail},
                b \in BoardCases(cfg), d \in ds}

\* the check whether the branch's PR is merged: [st, prMerged]
RmMergedCheck(st, worktreeName, flags, env) ==
    IF flags.deleteBranch THEN [st |-> st, prMerged |-> FALSE]
    ELSE LET s1 == Call(st, "pr_list", worktreeName, 0, "")
             pr == GetPRForBranch(st.w, worktreeName, env.prLookupFail)
         IN  IF pr.err # "" THEN [st |-> s1, prMerged |-> FALSE]
             ELSE LET s2 == Call(s1, "pr_view", <<>>, pr.num, "")
                      m == IsPRMerged(st.w, pr.num, env.prStateFail)
                  IN  [st |-> s2, prMerged |-> m.err = "" /\ m.merged]

\* the confirmation prompt, unless --yes
RmConfirm(st, flags, env) ==
    IF flags.yes THEN st
    ELSE LET s1 == Call(st, "confirm", <<>>, 0, "Confirm")
         IN  IF env.confirm THEN s1 ELSE Die(s1, "Aborted")

\* a relocation line wherever the operator is
RmRelocateAlways(st, needCd, env) ==
    IF Running(st) /\ ~env.mainPathFail
    THEN Println(st, "cd", <<>>)
    ELSE st

\* the relocation line for the invoking shell
RmRelocate(st, needCd, env) ==
    IF Running(st) /\ needCd /\ ~env.mainPathFail
    THEN Println(st, "cd", <<>>)
    ELSE st

\* the removal itself, then the pruning
RmRemove(st, worktreePath, flags, env) ==
    IF ~Running(st) THEN st
    ELSE LET r == RemoveWorktree(Info(st), worktreePath, flags.force, env)
         IN  IF r.err # ""
             THEN IF ~flags.force /\ HasUncommittedChanges(r.st.w, worktreePath)
                  THEN Die(r.st, "Worktree has uncommitted changes. Use --force")
                  ELSE Die(r.st, "Failed to remove worktree")
             ELSE Info(PruneWorktrees(r.st))

\* the board goes back to Todo unless the PR was found merged
RmBoard(st, cfg, branchName, prMerged, env) ==
    IF Running(st) /\ cfg.projectsEnabled /\ ~prMerged
       /\ ParseIssueFromBranch(branchName).ok
    THEN BoardStep(st, cfg, ParseIssueFromBranch(branchName).num, TodoValue,
                   env.board)
    ELSE st

\* the branches are deleted when asked for, or when the PR was found merged
RmBranches(st, branchName, deleteBranch, env) ==
    IF ~(Running(st) /\ deleteBranch) THEN st
    ELSE LET dl == DeleteBranch(Info(st), branchName, env.delLocalFail)
             s1 == IF ~BranchExists(st.w, branchName) THEN st
                   ELSE IF dl.err = "" THEN Info(dl.st) ELSE dl.st
             dr == DeleteRemoteBranch(Info(s1), branchName, env.delRemoteFail)
         IN  IF ~RemoteBranchExists(s1.w, branchName) THEN s1
             ELSE IF dr.err = "" THEN Info(dr.st) ELSE dr.st

runRm(w, cwdv, in, flags, cfg, env) ==
    LET s0 == Begin(w)
        tgt == ResolveIssueRm(w, in)
        worktreePath == FindWorktreeByIssue(w.dirs, tgt.num)
    IN  IF ~tgt.ok THEN Die(s0, tgt.msg)
        ELSE IF worktreePath = <<>> THEN Die(s0, "No worktree found")
        ELSE LET worktreeName == worktreePath
                 needCd == IsInsideWorktree(w, cwdv, worktreePath)
                 s1 == IF needCd THEN Warn(s0, "You are inside the worktree") ELSE s0
                 mc == RmMergedCheck(s1, worktreeName, flags, env)
                 autoDeleteBranch == mc.prMerged
                 s2 == RmConfirm(mc.st, flags, env)
                 s3 == RmRelocate(s2, needCd, env)
                 s4 == RmRemove(s3, worktreePath, flags, env)
                 s5 == IF Running(s4) /\ mc.prMerged /\ autoDeleteBranch
                       THEN Info(s4) ELSE s4
                 s6 == RmBoard(s5, cfg, worktreeName, mc.prMerged, env)
                 s7 == RmBranches(s6, worktreeName,
                                  flags.deleteBranch \/ autoDeleteBranch, env)
             IN  Return(s7)

(***************************************************************************)
(* create.                                                                 *)
(***************************************************************************)
\* a name with another separator
WorktreeNameUnderscore(issueNumber, title) ==
    Itoa(issueNumber) \o <<"_">> \o Slugify(title)

\* fmt.Sprintf("%d-%s", issueNumber, slug): the branch name, which is also
\* the leaf of the worktree path
WorktreeName(issueNumber, title) == Itoa(issueNumber) \o <<"-">> \o Slugify(title)

CreateEnv(f, h, b) ==
    [authFail |-> f = "auth", issueFail |-> f = "issue", fetchFail |-> f = "fetch",
     mkdirFail |-> f = "mkdir", addFail |-> f = "add", hook |-> h, board |-> b]

\* the outcomes of the external calls of one create run: one of them fails,
\* or none does, a create hook exists or not, and the board goes any way
CreateEnvs(cfg) ==
    {CreateEnv(f, FALSE, BoardOff) : f \in {"auth", "issue", "fetch", "mkdir", "add"}}
    \cup {CreateEnv("none", h, b) : h \in BOOLEAN, b \in BoardCases(cfg)}

\* git worktree add: refused for a path the bookkeeping still knows
GitWorktreeAddOk(w, path, addFail) == ~addFail /\ path \notin w.wtmeta

\* the start point of a worktree made for a branch that exists nowhere yet
FreshBase == <<"origin", "main">>

\* the three ways to create the worktree, by priority; base is what git
\* worktree add is given to start from, and branch is the branch the new
\* worktree has checked out
CreateByPriority(st, worktreePath, branchName, silent, env) ==
    LET how == IF BranchExists(st.w, branchName) THEN "from_local"
               ELSE IF RemoteBranchExists(st.w, branchName) THEN "from_remote"
               ELSE "from_main"
        base == IF how = "from_local" THEN <<branchName>>
                ELSE IF how = "from_remote" THEN <<"origin", branchName>>
                ELSE FreshBase
        s0 == IF silent THEN st ELSE Info(st)
        s1 == [s0 EXCEPT !.calls = Append(@, [op |-> "worktree_add",
                                             name |-> worktreePath, num |-> 0,
                                             val |-> how, base |-> base])]
    IN  IF GitWorktreeAddOk(st.w, worktreePath, env.addFail)
        THEN [s1 EXCEPT !.w.dirs = @ \cup {worktreePath},
                        !.w.wtmeta = @ \cup {worktreePath},
                        !.w.lbr = @ \cup {branchName}]
        ELSE Die(s1, "Failed to create worktree")

\* the create hook and the board update that follow a new worktree; RunHook
\* announces a hook it found and reports how it ended, one line each
CreateAfter(st, cfg, worktreePath, silent, env) ==
    IF ~Running(st) THEN st
    ELSE LET s1 == IF silent THEN st ELSE Info(st)
             s2 == IF env.hook
                   THEN Info(Call(Info(s1), "hook", worktreePath, 0, "create"))
                   ELSE s1
             s3 == IF cfg.verbose THEN Info(s2) ELSE s2
             branchName == worktreePath
             parsed == ParseIssueFromBranch(branchName)
             s4 == IF cfg.projectsEnabled /\ cfg.verbose THEN Info(s3) ELSE s3
             s5 == IF cfg.projectsEnabled /\ parsed.ok
                   THEN BoardStep(IF cfg.verbose THEN Info(Info(s4)) ELSE s4, cfg,
                                  parsed.num, InProgressValue, env.board)
                   ELSE IF cfg.projectsEnabled /\ cfg.verbose
                   THEN Warn(s4, "Could not parse issue number from branch")
                   ELSE s4
         IN  IF silent THEN s5 ELSE Println(s5, "cd", worktreePath)

\* gh issue view N --json number,title,state
GetIssue(issueNumber, fail) ==
    IF fail \/ issueNumber \notin Issues THEN [ok |-> FALSE, title |-> <<>>]
    ELSE [ok |-> TRUE, title |-> TitleOf(issueNumber)]

\* the message of the interactive create that finds its directory
AlreadyExists == "Worktree already exists. Use 'gwi cd N' or 'gwi rm N'"

\* a check that never finds the directory
WorktreeExistsNever(w, worktreePath) == FALSE

\* os.Stat(worktreePath) succeeds
WorktreeExists(w, worktreePath) == worktreePath \in w.dirs

\* createWorktree, given what the issue lookup returned: the result is the
\* run; the path it returns is the name
createWorktreeFor(w, cfg, issueNumber, issue, silent, env) ==
    LET s0 == Begin(w)
        s1 == IF silent THEN s0 ELSE Info(s0)
        worktreePath == WorktreeName(issueNumber, issue.title)
        branchName == worktreePath
    IN  IF env.authFail THEN Die(s0, "GitHub CLI not authenticated")
        ELSE IF ~issue.ok
        THEN Die(s1, "issue not found")
        ELSE LET s2 == IF issueNumber \in w.closed
                       THEN Warn(s1, "Issue is closed") ELSE s1
             IN  IF WorktreeExists(w, worktreePath)
                 THEN IF ~silent THEN Die(s2, AlreadyExists)
                      ELSE Println(s2, "path", worktreePath)
                 ELSE LET s3 == Call(IF silent THEN s2 ELSE Info(s2), "fetch",
                                     <<>>, 0, "")
                      IN  IF env.fetchFail THEN Die(s3, "Failed to fetch")
                          ELSE IF env.mkdirFail
                          THEN Die(s3, "Failed to create directory")
                          ELSE CreateAfter(
                                   CreateByPriority(s3, worktreePath, branchName,
                                                    silent, env),
                                   cfg, worktreePath, silent, env)

createWorktree(w, cfg, issueNumber, silent, env) ==
    createWorktreeFor(w, cfg, issueNumber, GetIssue(issueNumber, env.issueFail), silent, env)

\* runCreate: interactive
runCreate(w, cfg, in, env) ==
    IF in.kind # "arg" THEN Die(Begin(w), "Invalid issue number")
    ELSE Return(createWorktree(w, cfg, in.n, FALSE, env))

\* runInternalCreate: silent, and the returned path is printed
runInternalCreate(w, cfg, in, env) ==
    IF in.kind # "arg" THEN Die(Begin(w), "Invalid issue number")
    ELSE LET st == createWorktree(w, cfg, in.n, TRUE, env)
         IN  IF Running(st)
             THEN Return(Println(st, "path",
                                 WorktreeName(in.n, TitleOf(in.n))))
             ELSE st

(***************************************************************************)
(* pr.                                                                     *)
(***************************************************************************)
PrEnv(c, f, b, r) ==
    [confirm |-> c, issueFail |-> f = "issue", pushFail |-> f = "push",
     prFail |-> f = "pr", board |-> b, gitFail |-> r.gitFail,
     rmAllFail |-> r.rmAllFail]

\* the outcomes of the external calls of one pr run: the operator refuses,
\* or a call fails, or none does and the board and the removal go any way
PrEnvs(cfg) ==
    {PrEnv(FALSE, "none", BoardOff, RemovalOk)}
    \cup {PrEnv(TRUE, f, BoardOff, RemovalOk) : f \in {"issue", "push", "pr"}}
    \cup {PrEnv(TRUE, "none", b, r) : b \in BoardCases(cfg), r \in RemovalEnvs}

\* the warning and the prompt about uncommitted changes
PrDirtyCheck(st, worktreePath, env) ==
    IF ~HasUncommittedChanges(st.w, worktreePath) THEN st
    ELSE LET s1 == Call(Info(Warn(st, "Worktree has uncommitted changes")),
                        "confirm", <<>>, 0, "Continue anyway?")
         IN  IF env.confirm THEN s1 ELSE Die(s1, "Aborted. Commit your changes first.")

\* a submission that creates the PR whether the push worked or not
PrSubmitAnyway(st, issueNumber, worktreePath, branchName, env) ==
    IF ~Running(st) THEN st
    ELSE LET s1 == Call(Info(st), "issue_view", <<>>, issueNumber, "")
         IN  IF env.issueFail \/ issueNumber \notin Issues
             THEN Die(s1, "issue not found")
             ELSE LET ps == Push(Info(s1), worktreePath, branchName, env.pushFail)
                      cp == CreatePR(Info(ps.st), worktreePath, ClosesBody(issueNumber),
                                     branchName, env.prFail)
                  IN  IF cp.err # "" THEN Die(cp.st, "Failed to create PR")
                      ELSE Info(cp.st)

\* fetch the issue, push, create the PR
PrSubmit(st, issueNumber, worktreePath, branchName, env) ==
    IF ~Running(st) THEN st
    ELSE LET s1 == Call(Info(st), "issue_view", <<>>, issueNumber, "")
         IN  IF env.issueFail \/ issueNumber \notin Issues
             THEN Die(s1, "issue not found")
             ELSE LET ps == Push(Info(s1), worktreePath, branchName, env.pushFail)
                  IN  IF ps.err # "" THEN Die(ps.st, "Failed to push")
                      ELSE LET cp == CreatePR(Info(ps.st), worktreePath,
                                              ClosesBody(issueNumber), branchName,
                                              env.prFail)
                           IN  IF cp.err # "" THEN Die(cp.st, "Failed to create PR")
                               ELSE Info(cp.st)

\* board to in-review, then the worktree goes, without force
PrCleanup(st, cfg, issueNumber, worktreePath, env) ==
    IF ~Running(st) THEN st
    ELSE LET s1 == IF cfg.projectsEnabled
                   THEN BoardStep(st, cfg, issueNumber, InReviewValue, env.board)
                   ELSE st
             r == RemoveWorktree(Info(s1), worktreePath, FALSE, env)
         IN  Info(IF r.err # "" THEN Warn(r.st, "Failed to remove worktree")
                  ELSE r.st)

runPR(w, cwdv, in, cfg, env) ==
    LET s0 == Begin(w)
        tgt == ResolveIssue(w, cwdv, in)
        worktreePath == FindWorktreeByIssue(w.dirs, tgt.num)
    IN  IF ~tgt.ok THEN Die(s0, tgt.msg)
        ELSE IF worktreePath = <<>> THEN Die(s0, "No worktree found")
        ELSE LET s1 == PrDirtyCheck(s0, worktreePath, env)
                 branchName == worktreePath
                 s2 == PrSubmit(s1, tgt.num, worktreePath, branchName, env)
                 s3 == PrCleanup(s2, cfg, tgt.num, worktreePath, env)
             IN  Return(s3)

(***************************************************************************)
(* merge: the pull-request variant.                                        *)
(***************************************************************************)
\* the statusCheckRollup of a PR report: the conclusions of its checks
CheckReports == {<<>>, <<"SUCCESS">>, <<"SUCCESS", "FAILURE">>}

MergeEnv(f, mg, ms, ch, cb, cc, cm, mf, rp, dl) ==
    [listFail |-> f = "list", prLookupFail |-> f = "pr", statusFail |-> f = "status",
     mergeable |-> mg, mergeState |-> ms, checks |-> ch, confirmBlocked |-> cb,
     confirmChecks |-> cc, commitMsg |-> cm, mergeFail |-> mf,
     first |-> rp[1], second |-> rp[2], delLocalFail |-> dl]

\* the outcomes of the external calls of one merge run: a lookup fails; or
\* the report shows conflicts; or the operator refuses at a prompt; or the
\* operator agrees and the merge call works or fails; or the cleanup after
\* a merge goes any way
MergeEnvs ==
    {MergeEnv(f, "MERGEABLE", "CLEAN", <<>>, TRUE, TRUE, FALSE, FALSE,
              <<RemovalOk, RemovalOk>>, FALSE) : f \in {"list", "pr", "status"}}
    \cup {MergeEnv("none", "CONFLICTING", ms, ch, TRUE, TRUE, TRUE, FALSE,
                    <<RemovalOk, RemovalOk>>, FALSE) :
            ms \in {"CLEAN", "BLOCKED"}, ch \in CheckReports}
    \cup {MergeEnv("none", mg, "BLOCKED", ch, FALSE, TRUE, TRUE, FALSE,
                    <<RemovalOk, RemovalOk>>, FALSE) :
            mg \in {"MERGEABLE", "UNKNOWN"}, ch \in CheckReports}
    \cup {MergeEnv("none", mg, ms, ch, TRUE, FALSE, TRUE, FALSE,
                    <<RemovalOk, RemovalOk>>, FALSE) :
            mg \in {"MERGEABLE", "UNKNOWN"}, ms \in {"CLEAN", "BLOCKED"},
            ch \in {c \in CheckReports : GetFailingChecks(c) # {}}}
    \cup {MergeEnv("none", mg, ms, ch, TRUE, TRUE, cm, mf, <<RemovalOk, RemovalOk>>,
                    FALSE) :
            mg \in {"MERGEABLE", "UNKNOWN"}, ms \in {"CLEAN", "BLOCKED"},
            ch \in CheckReports, cm \in BOOLEAN, mf \in BOOLEAN}
    \cup {MergeEnv("none", "MERGEABLE", "CLEAN", <<>>, TRUE, TRUE, TRUE, FALSE, rp, dl) :
            rp \in RemovalPairs, dl \in BOOLEAN}

\* gh pr list --state open --json number,headRefName
ListOpenPRs(w) == {p \in DOMAIN w.prs : w.prs[p].state = "OPEN"}

\* without a worktree the branch is taken from the open PR whose number is
\* the number given: [st, branchName], branchName = <<>> when none
MergeBranchName(st, worktreePath, issueNumber, env) ==
    IF worktreePath # <<>> THEN [st |-> st, branchName |-> worktreePath]
    ELSE LET s1 == Call(st, "pr_list_open", <<>>, 0, "")
         IN  IF env.listFail
             THEN [st |-> Die(s1, "Failed to list PRs"), branchName |-> <<>>]
             ELSE IF issueNumber \in ListOpenPRs(st.w)
             THEN [st |-> s1, branchName |-> st.w.prs[issueNumber].head]
             ELSE [st |-> Die(s1, "No worktree or PR found"), branchName |-> <<>>]

\* the PR of the branch: [st, prNumber]
MergeFindPR(st, branchName, env) ==
    IF ~Running(st) THEN [st |-> st, prNumber |-> 0]
    ELSE LET s1 == Call(st, "pr_list", branchName, 0, "")
             pr == GetPRForBranch(st.w, branchName, env.prLookupFail)
         IN  IF pr.err # ""
             THEN [st |-> Die(s1, "No PR found for branch"), prNumber |-> 0]
             ELSE [st |-> s1, prNumber |-> pr.num]

\* a classification that asks about conflicts instead of giving up
MergeClassifyAsking(st, prNumber, env) ==
    IF ~Running(st) THEN st
    ELSE LET s1 == Call(st, "pr_status", <<>>, prNumber, "")
         IN  IF env.statusFail THEN Die(s1, "Failed to get PR status")
             ELSE LET s2 == IF env.mergeState = "BLOCKED" \/ env.mergeable = "CONFLICTING"
                            THEN LET c == Call(Warn(s1, "PR is blocked"), "confirm",
                                               <<>>, prNumber, "Continue anyway?")
                                 IN  IF env.confirmBlocked THEN c
                                     ELSE Die(c, "Aborted")
                            ELSE s1
                  IN  IF Running(s2) /\ GetFailingChecks(env.checks) # {}
                      THEN LET c == Call(Info(Warn(s2, "PR has failing checks")),
                                         "confirm", <<>>, prNumber, "Continue anyway?")
                           IN  IF env.confirmChecks THEN c ELSE Die(c, "Aborted")
                      ELSE s2

\* the classification of the PR report
MergeClassify(st, prNumber, env) ==
    IF ~Running(st) THEN st
    ELSE LET s1 == Call(st, "pr_status", <<>>, prNumber, "")
         IN  IF env.statusFail THEN Die(s1, "Failed to get PR status")
             ELSE IF env.mergeable = "CONFLICTING"
             THEN Die(s1, "PR has merge conflicts. Resolve them first.")
             ELSE LET s2 == IF env.mergeState = "BLOCKED"
                            THEN LET c == Call(Warn(s1, "PR is blocked"), "confirm",
                                               <<>>, prNumber, "Continue anyway?")
                                 IN  IF env.confirmBlocked THEN c
                                     ELSE Die(c, "Aborted")
                            ELSE s1
                  IN  IF Running(s2) /\ GetFailingChecks(env.checks) # {}
                      THEN LET c == Call(Info(Warn(s2, "PR has failing checks")),
                                         "confirm", <<>>, prNumber, "Continue anyway?")
                           IN  IF env.confirmChecks THEN c ELSE Die(c, "Aborted")
                      ELSE s2

\* the comment with the tip commit message, then the merge call
MergeCallLenient(st, issueNumber, prNumber, env) ==
    IF ~Running(st) THEN st
    ELSE LET s1 == IF env.commitMsg THEN CommentOnIssue(Info(st), issueNumber)
                   ELSE st
         IN  MergePR(Info(s1), prNumber, env.mergeFail).st

MergeCall(st, issueNumber, prNumber, env) ==
    IF ~Running(st) THEN st
    ELSE LET s1 == IF env.commitMsg THEN CommentOnIssue(Info(st), issueNumber)
                   ELSE st
             m == MergePR(Info(s1), prNumber, env.mergeFail)
         IN  IF m.err # "" THEN Die(m.st, "Failed to merge PR") ELSE m.st

\* remove the worktree, with force when the first attempt fails
RemoveWithFallback(st, worktreePath, env) ==
    LET r1 == RemoveWorktree(Info(st), worktreePath, FALSE, env.first)
    IN  IF r1.err # ""
        THEN RemoveWorktree(r1.st, worktreePath, TRUE, env.second).st
        ELSE r1.st

MergeCleanup(st, worktreePath, branchName, env) ==
    IF ~Running(st) THEN st
    ELSE LET s1 == IF worktreePath # <<>>
                   THEN RemoveWithFallback(st, worktreePath, env)
                   ELSE st
         IN  Info(DeleteBranch(s1, branchName, env.delLocalFail).st)

runMerge(w, cwdv, in, cfg, env) ==
    LET s0 == Begin(w)
        tgt == ResolveIssue(w, cwdv, in)
        worktreePath == FindWorktreeByIssue(w.dirs, tgt.num)
    IN  IF ~tgt.ok THEN Die(s0, tgt.msg)
        ELSE LET bn == MergeBranchName(s0, worktreePath, tgt.num, env)
                 fp == MergeFindPR(bn.st, bn.branchName, env)
                 s3 == MergeClassify(fp.st, fp.prNumber, env)
                 s4 == MergeCall(s3, tgt.num, fp.prNumber, env)
                 s5 == MergeCleanup(s4, worktreePath, bn.branchName, env)
             IN  Return(s5)

(***************************************************************************)
(* merge: the trunk-based variant, which merges the branch into the main   *)
(* working copy.                                                           *)
(***************************************************************************)
\* git checkout of the main branch in the main worktree
Checkout(st, fail) ==
    [st |-> Call(st, "checkout_main", <<>>, 0, ""),
     err |-> IF fail THEN "checkout failed" ELSE ""]

\* git merge of the branch into the main branch
MergeBranch(st, branchName, fail) ==
    LET s1 == Call(st, "merge_branch", branchName, 0, "")
    IN  IF fail THEN [st |-> s1, err |-> "merge failed"]
        ELSE [st |-> [s1 EXCEPT !.w.mainLocal = @ \cup {branchName}], err |-> ""]

\* git push of the main branch
PushMain(st, fail) ==
    LET s1 == Call(st, "push_main", <<>>, 0, "")
    IN  IF fail THEN [st |-> s1, err |-> "push failed"]
        ELSE [st |-> [s1 EXCEPT !.w.mainOrigin = @ \cup st.w.mainLocal], err |-> ""]

TrunkEnv(mp, f, cl, b, rp, dl, dr) ==
    [mainPathFail |-> mp, checkoutFail |-> f = "checkout", mergeFail |-> f = "merge",
     pushFail |-> f = "push", commentFail |-> cl = "comment", closeFail |-> cl = "close",
     board |-> b, first |-> rp[1], second |-> rp[2], delLocalFail |-> dl,
     delRemoteFail |-> dr]

TrunkEnvs(cfg) ==
    {TrunkEnv(TRUE, "none", "ok", BoardOff, <<RemovalOk, RemovalOk>>, FALSE, FALSE)}
    \cup {TrunkEnv(FALSE, f, "ok", BoardOff, <<RemovalOk, RemovalOk>>, FALSE, FALSE) :
            f \in {"checkout", "merge", "push"}}
    \cup {TrunkEnv(FALSE, "none", cl, b, rp, dl, dr) :
            cl \in {"ok", "comment", "close"},
            b \in BoardCases(cfg),
            rp \in RemovalPairs, dl \in BOOLEAN, dr \in BOOLEAN}

\* checkout, merge and push, going on after a merge that failed
TrunkMergeLoose(st, branchName, env) ==
    LET co == Checkout(Info(st), env.checkoutFail)
    IN  IF co.err # "" THEN Die(co.st, "Failed to checkout")
        ELSE LET mb == MergeBranch(Info(co.st), branchName, env.mergeFail)
                 pm == PushMain(Info(mb.st), env.pushFail)
             IN  IF pm.err # "" THEN Die(pm.st, "Failed to push") ELSE pm.st

\* checkout, merge and push in the main worktree
TrunkMerge(st, branchName, env) ==
    LET co == Checkout(Info(st), env.checkoutFail)
    IN  IF co.err # "" THEN Die(co.st, "Failed to checkout")
        ELSE LET mb == MergeBranch(Info(co.st), branchName, env.mergeFail)
             IN  IF mb.err # "" THEN Die(mb.st, "Merge failed")
                 ELSE LET pm == PushMain(Info(mb.st), env.pushFail)
                      IN  IF pm.err # "" THEN Die(pm.st, "Failed to push")
                          ELSE pm.st

\* close the issue, board to done, remove the worktree, delete the branches
TrunkCleanup(st, cfg, issueNumber, worktreePath, branchName, env) ==
    IF ~Running(st) THEN st
    ELSE LET cl == CloseIssue(Info(st), issueNumber, env.commentFail, env.closeFail)
             s1 == IF cl.err # "" THEN Warn(cl.st, "Failed to close issue") ELSE cl.st
             s2 == IF cfg.projectsEnabled
                   THEN BoardStep(s1, cfg, issueNumber, DoneValue, env.board)
                   ELSE s1
             s3 == PruneWorktrees(RemoveWithFallback(s2, worktreePath, env))
             s4 == DeleteBranch(Info(s3), branchName, env.delLocalFail).st
             s5 == DeleteRemoteBranch(s4, branchName, env.delRemoteFail).st
         IN  Println(Info(s5), "cd", <<>>)

runMergeTrunk(w, cwdv, in, cfg, env) ==
    LET s0 == Begin(w)
        tgt == ResolveIssue(w, cwdv, in)
        worktreePath == FindWorktreeByIssue(w.dirs, tgt.num)
        branchName == worktreePath
    IN  IF ~tgt.ok THEN Die(s0, tgt.msg)
        ELSE IF worktreePath = <<>> THEN Die(s0, "No worktree found")
        ELSE IF HasUncommittedChanges(w, worktreePath)
        THEN Die(s0, "Worktree has uncommitted changes. Commit or stash them first.")
        ELSE IF env.mainPathFail THEN Die(s0, "Failed to get main worktree")
        ELSE Return(TrunkCleanup(TrunkMerge(s0, branchName, env), cfg, tgt.num,
                                 worktreePath, branchName, env))

(***************************************************************************)
(* The system: the operator runs one command at a time; between commands   *)
(* the operator and the tracker change the world.                          *)
(***************************************************************************)
Init ==
    /\ dirs = {}
    /\ dirty = {}
    /\ wtmeta = {}
    /\ lbr = {}
    /\ rbr = {}
    /\ prs = <<>>
    /\ closed = {}
    /\ mainLocal = {}
    /\ mainOrigin = {}
    /\ cwd = <<>>
    /\ run = NoRun
    /\ nruns = 0
    /\ nfaulty = 0

\* between two commands, while the operator has commands left to run
Idle == run = NoRun /\ nruns < MaxRuns

\* the world after a command, and the record of the run
Finish(cmd, in, c, clean, st) ==
    /\ clean \/ nfaulty < MaxFaulty
    /\ Cardinality(DOMAIN st.w.prs) <= MaxPRs
    /\ nfaulty' = IF clean THEN nfaulty ELSE nfaulty + 1
    /\ dirs' = st.w.dirs
    /\ dirty' = st.w.dirty
    /\ wtmeta' = st.w.wtmeta
    /\ lbr' = st.w.lbr
    /\ rbr' = st.w.rbr
    /\ prs' = st.w.prs
    /\ closed' = st.w.closed
    /\ mainLocal' = st.w.mainLocal
    /\ mainOrigin' = st.w.mainOrigin
    /\ run' = [cmd |-> cmd, in |-> in, flags |-> c.flags, cfg |-> c.cfg, env |-> c.env,
               pre |-> World, precwd |-> cwd, calls |-> st.calls, out |-> st.out,
               warns |-> st.warns, exit |-> st.exit, msg |-> st.msg]
    /\ nruns' = nruns + 1
    /\ UNCHANGED cwd

\* every external call of the run works
BoardClean(b) == b.pre = "ok" /\ \A i \in DOMAIN b.outs : b.outs[i] = "ok"

RemovalClean(r) == ~r.gitFail /\ ~r.rmAllFail

CreateClean(e) ==
    /\ ~(e.authFail \/ e.issueFail \/ e.fetchFail \/ e.mkdirFail \/ e.addFail)
    /\ BoardClean(e.board)

PrClean(e) ==
    ~(e.issueFail \/ e.pushFail \/ e.prFail) /\ BoardClean(e.board) /\ RemovalClean(e)

MergeClean(e) ==
    /\ ~(e.listFail \/ e.prLookupFail \/ e.statusFail \/ e.mergeFail \/ e.delLocalFail)
    /\ RemovalClean(e.first) /\ RemovalClean(e.second)

TrunkClean(e) ==
    /\ ~(e.mainPathFail \/ e.checkoutFail \/ e.mergeFail \/ e.pushFail)
    /\ ~(e.commentFail \/ e.closeFail \/ e.delLocalFail \/ e.delRemoteFail)
    /\ BoardClean(e.board) /\ RemovalClean(e.first) /\ RemovalClean(e.second)

RmClean(e) ==
    /\ ~(e.prLookupFail \/ e.prStateFail \/ e.mainPathFail)
    /\ ~(e.delLocalFail \/ e.delRemoteFail)
    /\ BoardClean(e.board) /\ RemovalClean(e)

NoFlags == [force |-> FALSE, yes |-> FALSE, deleteBranch |-> FALSE]

CreateInputs ==
    [kind : {"arg"}, n : Issues, pick : {<<>>}]
    \cup [kind : {"bad"}, n : {0}, pick : {<<>>}]

Quiet == [projectsEnabled |-> FALSE, verbose |-> FALSE, mainBranch |-> "main"]

Choice(flags, cfg, env) == [flags |-> flags, cfg |-> cfg, env |-> env]

\* a run that ends before its first external call and its first line of
\* output has read no flag, no setting and no answer: it is run once, with
\* the first of the choices
Unasked(st) == st.exit = "die" /\ st.calls = <<>> /\ st.out = <<>>

Choices(probe, first, all) == IF Unasked(probe) THEN {first} ELSE all

CreateChoices ==
    UNION {{Choice(NoFlags, c, e) : e \in CreateEnvs(c)} : c \in Configs}

Create ==
    /\ Idle
    /\ \E in \in CreateInputs :
          LET first == Choice(NoFlags, Quiet, CreateEnv("none", FALSE, BoardOff))
          IN  \E c \in Choices(runCreate(World, Quiet, in, first.env), first,
                               CreateChoices) :
                 Finish("create", in, c, CreateClean(c.env),
                        runCreate(World, c.cfg, in, c.env))

InternalCreate ==
    /\ Idle
    /\ \E in \in CreateInputs :
          LET first == Choice(NoFlags, Quiet, CreateEnv("none", FALSE, BoardOff))
          IN  \E c \in Choices(runInternalCreate(World, Quiet, in, first.env), first,
                               CreateChoices) :
                 Finish("_create", in, c, CreateClean(c.env),
                        runInternalCreate(World, c.cfg, in, c.env))

PR ==
    /\ Idle
    /\ \E in \in Inputs(World) :
          LET first == Choice(NoFlags, Quiet, PrEnv(TRUE, "none", BoardOff, RemovalOk))
          IN  \E c \in Choices(runPR(World, cwd, in, Quiet, first.env), first,
                               UNION {{Choice(NoFlags, g, e) : e \in PrEnvs(g)} :
                                      g \in Configs}) :
                 Finish("pr", in, c, PrClean(c.env),
                        runPR(World, cwd, in, c.cfg, c.env))

\* merge reads none of the settings modelled: one setting stands for all
Merge ==
    /\ Idle
    /\ \E in \in Inputs(World) :
          LET first == Choice(NoFlags, Quiet,
                              MergeEnv("none", "MERGEABLE", "CLEAN", <<>>, TRUE, TRUE,
                                       TRUE, FALSE, <<RemovalOk, RemovalOk>>, FALSE))
          IN  \E c \in Choices(runMerge(World, cwd, in, Quiet, first.env), first,
                               {Choice(NoFlags, g, e) :
                                  g \in {h \in Configs : h.projectsEnabled /\ ~h.verbose},
                                  e \in MergeEnvs}) :
                 Finish("merge", in, c, MergeClean(c.env),
                        runMerge(World, cwd, in, c.cfg, c.env))

MergeTrunk ==
    /\ Idle
    /\ \E in \in Inputs(World) :
          LET first == Choice(NoFlags, Quiet,
                              TrunkEnv(FALSE, "none", "ok", BoardOff,
                                       <<RemovalOk, RemovalOk>>, FALSE, FALSE))
          IN  \E c \in Choices(runMergeTrunk(World, cwd, in, Quiet, first.env), first,
                               UNION {{Choice(NoFlags, g, e) : e \in TrunkEnvs(g)} :
                                      g \in Configs}) :
                 Finish("merge_trunk", in, c, TrunkClean(c.env),
                        runMergeTrunk(World, cwd, in, c.cfg, c.env))

Rm ==
    /\ Idle
    /\ \E in \in Inputs(World) :
          LET first == Choice(NoFlags, Quiet,
                              RmEnv(TRUE, "none", FALSE, RemovalOk, BoardOff,
                                    <<FALSE, FALSE>>))
              worktreePath == FindWorktreeByIssue(dirs, ResolveIssueRm(World, in).num)
          IN  \E c \in Choices(runRm(World, cwd, in, NoFlags, Quiet, first.env), first,
                               UNION {{Choice(f, g, e) :
                                         e \in RmEnvs(World, cwd, worktreePath, f, g)} :
                                      f \in RmFlags, g \in Configs}) :
                 Finish("rm", in, c, RmClean(c.env),
                        runRm(World, cwd, in, c.flags, c.cfg, c.env))

\* the shell function around the command: it changes directory to the
\* path of a relocation line, or to the single path _create printed
ShellCd(r, cwdv, w) ==
    LET cds == {i \in 1..Len(r.out) : r.out[i].kind = "cd"}
    IN  IF r.cmd \in {"rm", "merge", "merge_trunk"} /\ cds # {} THEN <<>>
        ELSE IF r.cmd = "_create" /\ Len(r.out) = 1 /\ r.out[1].kind = "path"
                /\ r.out[1].text \in w.dirs
        THEN <<r.out[1].text>>
        ELSE cwdv

\* the command's process ends
Exit ==
    /\ run # NoRun
    /\ cwd' = ShellCd(run, cwd, World)
    /\ run' = NoRun
    /\ UNCHANGED <<dirs, dirty, wtmeta, lbr, rbr, prs, closed, mainLocal,
                   mainOrigin, nruns, nfaulty>>

\* the operator edits files in a worktree
Edit ==
    /\ Idle
    /\ \E d \in dirs \ dirty : dirty' = dirty \cup {d}
    /\ UNCHANGED <<dirs, wtmeta, lbr, rbr, prs, closed, mainLocal, mainOrigin,
                   cwd, run, nruns, nfaulty>>

\* the operator commits the changes of a worktree
Commit ==
    /\ Idle
    /\ \E d \in dirty : dirty' = dirty \ {d}
    /\ UNCHANGED <<dirs, wtmeta, lbr, rbr, prs, closed, mainLocal, mainOrigin,
                   cwd, run, nruns, nfaulty>>

\* the operator changes directory
Cd ==
    /\ Idle
    /\ \E t \in {<<d>> : d \in dirs} \cup {<<>>} : cwd' = t /\ t # cwd
    /\ UNCHANGED <<dirs, dirty, wtmeta, lbr, rbr, prs, closed, mainLocal,
                   mainOrigin, run, nruns, nfaulty>>

\* the operator pushes a branch and opens a pull request without the tool
OperatorOpensPR ==
    /\ Idle
    /\ Cardinality(DOMAIN prs) < MaxPRs
    /\ \E b \in lbr :
          /\ rbr' = rbr \cup {b}
          /\ prs' = [q \in DOMAIN prs \cup {NewPRNumber(World)} |->
                        IF q \in DOMAIN prs THEN prs[q]
                        ELSE [head |-> b, state |-> "OPEN", body |-> <<>>]]
    /\ UNCHANGED <<dirs, dirty, wtmeta, lbr, closed, mainLocal, mainOrigin,
                   cwd, run, nruns, nfaulty>>

\* a pull request is merged on the tracker
TrackerMerges ==
    /\ Idle
    /\ \E p \in DOMAIN prs :
          /\ prs[p].state = "OPEN"
          /\ prs' = [prs EXCEPT ![p].state = "MERGED"]
          /\ closed' = closed \cup ClosedBy(World, p)
    /\ UNCHANGED <<dirs, dirty, wtmeta, lbr, rbr, mainLocal, mainOrigin,
                   cwd, run, nruns, nfaulty>>

Next ==
    \/ Create
    \/ InternalCreate
    \/ PR
    \/ Merge
    \/ MergeTrunk
    \/ Rm
    \/ Exit
    \/ Edit
    \/ Commit
    \/ Cd
    \/ OperatorOpensPR
    \/ TrackerMerges

Spec == Init /\ [][Next]_vars

(***************************************************************************)
(* Names: create for any issue number and title, then every parser on the  *)
(* name it made.                                                           *)
(***************************************************************************)
NameNumbers == {0, 4, 42, 100}

TitleChars == {"a", "B", "7", "-", "!"}

\* a title whose slug is cut at SlugMax, where it has a dash
LongTitle == [i \in 1..60 |-> IF i < 50 THEN "a" ELSE IF i = 50 THEN " " ELSE "b"]

\* a title that starts with punctuation, cut at a dash as well
ShiftedTitle == [i \in 1..60 |-> IF i <= 2 THEN "!" ELSE IF i = 52 THEN "-" ELSE "B"]

\* a title whose slug is cut between two digits
DigitsTitle == [i \in 1..60 |-> "7"]

Titles ==
    UNION {[1..k -> TitleChars] : k \in 0..MaxTitleLen}
        \cup {LongTitle, ShiftedTitle, DigitsTitle}

\* nothing exists yet and no command has run
Fresh ==
    /\ dirs = {}
    /\ dirty = {}
    /\ wtmeta = {}
    /\ lbr = {}
    /\ rbr = {}
    /\ prs = <<>>
    /\ closed = {}
    /\ mainLocal = {}
    /\ mainOrigin = {}
    /\ cwd = <<>>
    /\ nruns = 0
    /\ nfaulty = 0

InitNames ==
    /\ Fresh
    /\ run \in {[cmd |-> "title", n |-> n, title |-> t] : n \in NameNumbers, t \in Titles}

\* create for issue n, whose lookup returned the title
CreateNamed ==
    /\ run.cmd = "title"
    /\ LET st == createWorktreeFor(World, Quiet, run.n, [ok |-> TRUE, title |-> run.title],
                                   TRUE, CreateEnv("none", FALSE, BoardOff))
       IN  /\ dirs' = st.w.dirs
           /\ wtmeta' = st.w.wtmeta
           /\ lbr' = st.w.lbr
           /\ run' = [cmd |-> "named", n |-> run.n, title |-> run.title]
    /\ UNCHANGED <<dirty, rbr, prs, closed, mainLocal, mainOrigin, cwd, nruns, nfaulty>>

\* what each parser used later makes of the worktree and of its branch
ParseNamed ==
    /\ run.cmd = "named"
    /\ \E d \in dirs, b \in lbr :
          run' = [cmd |-> "parsed", n |-> run.n, title |-> run.title,
                  found |-> FindWorktreeByIssue(dirs, run.n),
                  detected |-> DetectIssueNumber(<<d>>),
                  parsed |-> ParseIssueFromBranch(b),
                  existing |-> ExistingIssueOf(d),
                  selected |-> SelectValueOf(d)]
    /\ UNCHANGED <<dirs, dirty, wtmeta, lbr, rbr, prs, closed, mainLocal, mainOrigin,
                   cwd, nruns, nfaulty>>

NextNames ==
    \/ CreateNamed
    \/ ParseNamed

SpecNames == InitNames /\ [][NextNames]_vars

(***************************************************************************)
(* The loop of UpdateIssueStatus over the linked items, item by item.      *)
(***************************************************************************)
StatusValues == {TodoValue, InProgressValue, InReviewValue, DoneValue}

InitStatus ==
    /\ Fresh
    /\ run \in {[cmd |-> "set_status", issue |-> IssuePool[1], value |-> v, outs |-> o,
                 i |-> 1, verbose |-> b,
                 acc |-> [st |-> Call(Begin(World), "board_items", <<>>, IssuePool[1], ""),
                          lastErr |-> NoErr, successCount |-> 0],
                 err |-> NoErr] :
                   v \in StatusValues, b \in BOOLEAN,
                   o \in UNION {[1..k -> ItemOutcomes] : k \in 0..MaxItems}}

\* one pass of the loop body
StatusNextItem ==
    /\ run.cmd = "set_status"
    /\ run.i <= Len(run.outs)
    /\ run' = [run EXCEPT !.acc = StatusItem(@, run.issue, run.i, run.outs[run.i],
                                             run.value, run.verbose),
                          !.i = @ + 1]
    /\ UNCHANGED <<dirs, dirty, wtmeta, lbr, rbr, prs, closed, mainLocal, mainOrigin,
                   cwd, nruns, nfaulty>>

\* the loop is over: the function returns
StatusReturn ==
    /\ run.cmd = "set_status"
    /\ run.i > Len(run.outs)
    /\ run' = [run EXCEPT !.cmd = "status_set", !.err = StatusResult(run.acc)]
    /\ UNCHANGED <<dirs, dirty, wtmeta, lbr, rbr, prs, closed, mainLocal, mainOrigin,
                   cwd, nruns, nfaulty>>

NextStatus ==
    \/ StatusNextItem
    \/ StatusReturn

SpecStatus == InitStatus /\ [][NextStatus]_vars

(***************************************************************************)
(* Load: the defaults, then the config file, then the environment.         *)
(***************************************************************************)
\* the options of the model: one text option and the four switches
Defaults ==
    [mainBranch |-> "main", autoActivate |-> FALSE, verbose |-> FALSE,
     projectsEnabled |-> TRUE, checkScopes |-> TRUE]

Switches == {"autoActivate", "verbose", "projectsEnabled", "checkScopes"}

\* a config file: for each option a value, or "" when the file has no
\* config.yaml or does not name the option
ConfigFiles ==
    [mainBranch : {"", "master"}, autoActivate : {"", "true", "false"},
     verbose : {"", "true", "false"}, projectsEnabled : {"", "true", "false"},
     checkScopes : {"", "true", "false"}]

\* the environment: for each variable its text, "" when it is not set
Environments ==
    [mainBranch : {"", "trunk"}, autoActivate : {"", "1", "0"},
     verbose : {"", "1", "0"}, projectsEnabled : {"", "1", "0", "false"},
     checkScopes : {"", "1", "0", "false"}]

\* yaml.Unmarshal over the defaults
Unmarshal(file) ==
    [o \in DOMAIN Defaults |-> IF file[o] = "" THEN Defaults[o]
                               ELSE IF o \in Switches THEN file[o] = "true"
                               ELSE file[o]]

\* Load
Load(file, env) ==
    LET cfg == Unmarshal(file)
    IN  [mainBranch |-> IF env.mainBranch # "" THEN env.mainBranch ELSE cfg.mainBranch,
         autoActivate |-> IF env.autoActivate = "1" THEN TRUE ELSE cfg.autoActivate,
         verbose |-> IF env.verbose = "1" THEN TRUE ELSE cfg.verbose,
         projectsEnabled |-> IF env.projectsEnabled # ""
                             THEN env.projectsEnabled \notin {"false", "0"}
                             ELSE cfg.projectsEnabled,
         checkScopes |-> IF env.checkScopes \in {"0", "false"} THEN FALSE
                         ELSE cfg.checkScopes]

InitLoad ==
    /\ Fresh
    /\ run \in [cmd : {"load"}, file : ConfigFiles, env : Environments]

LoadConfig ==
    /\ run.cmd = "load"
    /\ run' = [cmd |-> "loaded", file |-> run.file, env |-> run.env,
               cfg |-> Load(run.file, run.env)]
    /\ UNCHANGED <<dirs, dirty, wtmeta, lbr, rbr, prs, closed, mainLocal, mainOrigin,
                   cwd, nruns, nfaulty>>

NextLoad == LoadConfig

SpecLoad == InitLoad /\ [][NextLoad]_vars

(***************************************************************************)
(* Hooks: FindHook and RunHook.                                            *)
(***************************************************************************)
\* what os.Stat can find at a hook's path: nothing, a file without or with
\* an execute bit, or a directory (searchable, so with execute bits)
HookEntries ==
    {[exists |-> FALSE, dir |-> FALSE, x |-> FALSE],
     [exists |-> TRUE, dir |-> FALSE, x |-> FALSE],
     [exists |-> TRUE, dir |-> FALSE, x |-> TRUE],
     [exists |-> TRUE, dir |-> TRUE, x |-> TRUE]}

\* isExecutable: the path exists and its mode has an execute bit
isExecutable(entry) == entry.exists /\ entry.x

\* FindHook: the location of the hook, "" for none; fs gives the entry at
\* each of the three locations
FindHook(fs, mainKnown, repoKnown) ==
    IF isExecutable(fs.worktree) THEN "worktree"
    ELSE IF mainKnown /\ isExecutable(fs.main) THEN "main"
    ELSE IF repoKnown /\ isExecutable(fs.global) THEN "global"
    ELSE ""

\* RunHook: (ran, err), with the lines it prints; a directory cannot be
\* executed, a script can exit with an error
RunHook(fs, mainKnown, repoKnown, scriptFails) ==
    LET hookScript == FindHook(fs, mainKnown, repoKnown)
    IN  IF hookScript = ""
        THEN [hook |-> "", ran |-> FALSE, err |-> "", lines |-> <<>>]
        ELSE IF fs[hookScript].dir \/ scriptFails
        THEN [hook |-> hookScript, ran |-> TRUE,
              err |-> IF fs[hookScript].dir THEN "permission denied" ELSE "exit status 1",
              lines |-> <<"Running hook...", "Hook exited with error">>]
        ELSE [hook |-> hookScript, ran |-> TRUE, err |-> "",
              lines |-> <<"Running hook...", "Hook completed">>]

InitHooks ==
    /\ Fresh
    /\ run \in [cmd : {"hook"},
                 fs : [worktree : HookEntries, main : HookEntries, global : HookEntries],
                 mainKnown : BOOLEAN, repoKnown : BOOLEAN, scriptFails : BOOLEAN]

RunHookStep ==
    /\ run.cmd = "hook"
    /\ run' = [run EXCEPT !.cmd = "hooked"] @@
              [res |-> RunHook(run.fs, run.mainKnown, run.repoKnown, run.scriptFails)]
    /\ UNCHANGED <<dirs, dirty, wtmeta, lbr, rbr, prs, closed, mainLocal, mainOrigin,
                   cwd, nruns, nfaulty>>

NextHooks == RunHookStep

SpecHooks == InitHooks /\ [][NextHooks]_vars

(***************************************************************************)
(* Select: the numbered list and the fuzzy finder.                         *)
(***************************************************************************)
\* the result of a selection: a value, or an error and no value
Selected(value) == [value |-> value, err |-> ""]

SelectErr(m) == [value |-> <<>>, err |-> m]

\* strings.TrimSpace, for blanks and newlines
RECURSIVE TrimSpace(_)
TrimSpace(s) ==
    IF s # <<>> /\ Head(s) \in {" ", "\n"} THEN TrimSpace(Tail(s))
    ELSE IF s # <<>> /\ s[Len(s)] \in {" ", "\n"}
    THEN TrimSpace(SubSeq(s, 1, Len(s) - 1))
    ELSE s

\* the numbering that counts every option, disabled or not
AllIndices(options, i) == [j \in 1..(Len(options) - i + 1) |-> i + j - 1]

\* the indices of the options that are not disabled, in their order:
\* enabledIndices[displayNum] = i
RECURSIVE EnabledIndices(_, _)
EnabledIndices(options, i) ==
    IF i > Len(options) THEN <<>>
    ELSE IF options[i].disabled THEN EnabledIndices(options, i + 1)
    ELSE <<i>> \o EnabledIndices(options, i + 1)

\* the list as printed: the display number of each option, 0 for none
Numbered(options) ==
    LET enabledIndices == EnabledIndices(options, 1)
    IN  [i \in 1..Len(options) |->
            [label |-> options[i].label,
             num |-> IF \E d \in 1..Len(enabledIndices) : enabledIndices[d] = i
                     THEN CHOOSE d \in 1..Len(enabledIndices) : enabledIndices[d] = i
                     ELSE 0]]

\* selectWithNumbered: input is what ReadString gave, a line or an error
selectWithNumbered(options, input) ==
    LET enabledIndices == EnabledIndices(options, 1)
        displayNum == Len(enabledIndices) + 1
        choice == Atoi(TrimSpace(input.text))
    IN  IF Len(enabledIndices) = 0 THEN SelectErr("no selectable options available")
        ELSE IF input.err # "" THEN SelectErr(input.err)
        ELSE IF ~choice.ok \/ choice.num < 1 \/ choice.num >= displayNum
        THEN SelectErr("invalid selection")
        ELSE Selected(options[enabledIndices[choice.num]].value)

\* the colour codes, one element each
FzfDim == "<dim>"
FzfReset == "<reset>"
FzfYellow == "<yellow>"
FzfCyan == "<cyan>"

\* stripAnsi: the text without the colour codes
StripAnsi(s) == SelectSeq(s, LAMBDA c : c \notin {FzfDim, FzfReset, FzfYellow, FzfCyan})

\* the label of an option as selectWithFzf builds it, before the dimming
FzfLabel(opt) ==
    IF opt.hint # <<>>
    THEN IF opt.inProgress /\ ~opt.disabled
         THEN <<FzfYellow>> \o opt.label \o <<FzfReset, " ", FzfCyan, "(">> \o opt.hint
                  \o <<")", FzfReset>>
         ELSE opt.label \o <<" ", FzfYellow, "(">> \o opt.hint \o <<")", FzfReset>>
    ELSE IF opt.inProgress /\ ~opt.disabled
    THEN <<FzfYellow>> \o opt.label \o <<FzfReset>>
    ELSE opt.label

\* the line of an option in the finder's input
FzfLine(opt) ==
    IF opt.disabled THEN <<FzfDim>> \o FzfLabel(opt) \o <<FzfReset>> ELSE FzfLabel(opt)

\* labelToValue with the disabled options in it as well
LabelToValueAll(options) ==
    LET writes(i) == {FzfLabel(options[i]), options[i].label}
        keys == UNION {writes(i) : i \in 1..Len(options)}
    IN  [key \in keys |->
            options[CHOOSE i \in 1..Len(options) :
                        /\ key \in writes(i)
                        /\ \A j \in (i + 1)..Len(options) : key \notin writes(j)].value]

\* labelToValue: a later option with the same key replaces an earlier one
LabelToValue(options) ==
    LET writes(i) == IF options[i].disabled THEN {}
                     ELSE {FzfLabel(options[i]), options[i].label}
        keys == UNION {writes(i) : i \in 1..Len(options)}
    IN  [key \in keys |->
            options[CHOOSE i \in 1..Len(options) :
                        /\ key \in writes(i)
                        /\ \A j \in (i + 1)..Len(options) : key \notin writes(j)].value]

\* the results selectWithFzf can give for the finder's output: the loop over
\* the map returns at the first key that fits, in the order of that run
FzfResults(options, output) ==
    LET labelToValue == LabelToValue(options)
        selected == TrimSpace(output.text)
        cleanSelected == StripAnsi(selected)
        fitting == {label \in DOMAIN labelToValue :
                       \/ StripAnsi(label) = cleanSelected
                       \/ HasPrefix(cleanSelected, StripAnsi(label) \o <<" ">>)}
    IN  IF output.err # "" THEN {SelectErr("no selection made")}
        ELSE IF selected = <<>> THEN {SelectErr("no selection made")}
        ELSE IF selected \in DOMAIN labelToValue THEN {Selected(labelToValue[selected])}
        ELSE IF fitting # {} THEN {Selected(labelToValue[label]) : label \in fitting}
        ELSE {SelectErr("invalid selection")}

\* the issues offered, their titles, and how an issue is offered
OfferedIssues == <<4, 42, 7>>

OfferedTitles == {<<"a">>, <<"a", " ", "b">>}

Offers == {"open", "started", "exists", "held"}

\* selectIssue: the option of an issue
IssueOption(n, title, offer) ==
    [label |-> <<"#">> \o Itoa(n) \o <<" ">> \o title,
     value |-> Itoa(n),
     disabled |-> offer \in {"exists", "held"},
     hint |-> IF offer = "exists" THEN <<"a", "l", "r", "e", "a", "d", "y", " ", "e", "x", "i", "s", "t", "s">>
              ELSE IF offer \in {"started", "held"} THEN <<"i", "n", " ", "p", "r", "o", "g", "r", "e", "s", "s">>
              ELSE <<>>,
     inProgress |-> offer \in {"started", "held"}]

\* the lists of options: the first issues of OfferedIssues, in that order;
\* issues in progress are either all offered or all held back
OptionLists ==
    UNION {{[i \in 1..k |-> IssueOption(OfferedIssues[i], t[i], o[i])] :
               t \in [1..k -> OfferedTitles],
               o \in {f \in [1..k -> Offers] :
                         ~("started" \in {f[i] : i \in 1..k}
                           /\ "held" \in {f[i] : i \in 1..k})}} :
           k \in 0..Min(MaxOptions, Len(OfferedIssues))}

\* what the operator can type at the prompt of the numbered list
TypedLines ==
    {<<"\n">>, <<"0", "\n">>, <<"1", "\n">>, <<" ", "2", " ", "\n">>, <<"3", "\n">>,
     <<"4", "\n">>, <<"+", "1", "\n">>, <<"-", "1", "\n">>, <<"x", "\n">>}

NumberedInputs ==
    [text : TypedLines, err : {""}] \cup [text : {<<>>, <<"1">>}, err : {"EOF"}]

\* what the finder can print: nothing, or a line of its input, with the
\* colour codes or without them
FinderOutputs(options) ==
    [text : {<<>>}, err : {"", "exit status 130"}]
    \cup [text : UNION {{FzfLine(options[i]) \o <<"\n">>,
                         StripAnsi(FzfLine(options[i])) \o <<"\n">>} :
                        i \in 1..Len(options)},
          err : {""}]

InitSelect ==
    /\ Fresh
    /\ run \in [cmd : {"select"}, options : OptionLists]

\* Select without the finder
SelectNumbered ==
    /\ run.cmd = "select"
    /\ \E input \in NumberedInputs :
          run' = [cmd |-> "numbered", options |-> run.options, input |-> input,
                  shown |-> Numbered(run.options),
                  result |-> IF Len(run.options) = 0
                             THEN SelectErr("no options to select from")
                             ELSE selectWithNumbered(run.options, input)]
    /\ UNCHANGED <<dirs, dirty, wtmeta, lbr, rbr, prs, closed, mainLocal, mainOrigin,
                   cwd, nruns, nfaulty>>

\* Select with the finder
SelectFzf ==
    /\ run.cmd = "select"
    /\ Len(run.options) > 0
    /\ \E output \in FinderOutputs(run.options) :
          \E result \in FzfResults(run.options, output) :
             run' = [cmd |-> "fzf", options |-> run.options, output |-> output,
                     results |-> FzfResults(run.options, output),
                     result |-> result]
    /\ UNCHANGED <<dirs, dirty, wtmeta, lbr, rbr, prs, closed, mainLocal, mainOrigin,
                   cwd, nruns, nfaulty>>

\* Select on an empty list, with the finder installed
SelectNothing ==
    /\ run.cmd = "select"
    /\ Len(run.options) = 0
    /\ run' = [cmd |-> "fzf", options |-> run.options, output |-> [text |-> <<>>, err |-> ""],
               results |-> {SelectErr("no options to select from")},
               result |-> SelectErr("no options to select from")]
    /\ UNCHANGED <<dirs, dirty, wtmeta, lbr, rbr, prs, closed, mainLocal, mainOrigin,
                   cwd, nruns, nfaulty>>

NextSelect ==
    \/ SelectNumbered
    \/ SelectFzf
    \/ SelectNothing

SpecSelect == InitSelect /\ [][NextSelect]_vars

(***************************************************************************)
(* ParseRemoteURL: the organisation and the repository of a remote URL.    *)
(***************************************************************************)
DotGit == <<".", "g", "i", "t">>

NoRepo == [ok |-> FALSE, org |-> <<>>, repo |-> <<>>]

\* [^/.]+ : at least one character, none of them a slash or a dot
IsRepoName(s) == s # <<>> /\ \A i \in 1..Len(s) : s[i] \notin {"/", "."}

\* ([^/]+)/([^/.]+)(\.git)?$ on the text after the prefix
MatchOrgRepo(rest) ==
    LET k == IndexOf(rest, "/")
        r == SubSeq(rest, k + 2, Len(rest))
        cut == SubSeq(r, 1, Len(r) - Len(DotGit))
    IN  IF k < 1 THEN NoRepo
        ELSE IF IsRepoName(r)
        THEN [ok |-> TRUE, org |-> SubSeq(rest, 1, k), repo |-> r]
        ELSE IF Len(r) > Len(DotGit) /\ SubSeq(r, Len(cut) + 1, Len(r)) = DotGit
                /\ IsRepoName(cut)
        THEN [ok |-> TRUE, org |-> SubSeq(rest, 1, k), repo |-> cut]
        ELSE NoRepo

\* FindStringSubmatch: the leftmost place where one of the prefixes and then
\* the rest of the expression match
FindSubmatch(remoteURL, prefixes) ==
    LET after(i, p) == SubSeq(remoteURL, i + Len(p), Len(remoteURL))
        fits(i, p) == /\ HasPrefix(SubSeq(remoteURL, i, Len(remoteURL)), p)
                      /\ MatchOrgRepo(after(i, p)).ok
        starts == {i \in 1..Len(remoteURL) : \E p \in prefixes : fits(i, p)}
    IN  IF starts = {} THEN NoRepo
        ELSE LET i == CHOOSE j \in starts : \A h \in starts : j <= h
                 p == CHOOSE q \in prefixes : fits(i, q)
             IN  MatchOrgRepo(after(i, p))

GithubPrefixes == {<<"g", "i", "t", "h", "u", "b", ".", "c", "o", "m", ":">>, <<"g", "i", "t", "h", "u", "b", ".", "c", "o", "m", "/">>}

ProxyPrefixes == {<<"/", "g", "i", "t", "/">>}

GenericPrefixes == {<<"/">>, <<":">>}

ParseRemoteURL(remoteURL) ==
    LET standard == FindSubmatch(remoteURL, GithubPrefixes)
        proxy == FindSubmatch(remoteURL, ProxyPrefixes)
    IN  IF standard.ok THEN standard
        ELSE IF proxy.ok THEN proxy
        ELSE FindSubmatch(remoteURL, GenericPrefixes)

\* the hosts, organisations and repository names of the remotes
RemoteHosts == {<<"g", "i", "t", "h", "u", "b", ".", "c", "o", "m">>, <<"h", ".", "i", "o">>}

RemoteOrgs == {<<"o">>, <<"g", "i", "t">>, <<"a", ".", "b">>}

RemoteRepos == {<<"r">>, <<"g", "i", "t">>, <<"r", "-", "1">>, <<"n", ".", "j", "s">>}

\* the URL of a repository in each format, without the ".git"
RemoteURLs ==
    {<<"g", "i", "t", "@">> \o h \o <<":">> \o o \o <<"/">> \o r :
        h \in RemoteHosts, o \in RemoteOrgs, r \in RemoteRepos}
    \cup {<<"h", "t", "t", "p", "s", ":", "/", "/">> \o h \o <<"/">> \o o \o <<"/">> \o r :
        h \in RemoteHosts, o \in RemoteOrgs, r \in RemoteRepos}
    \cup {<<"h", "t", "t", "p", ":", "/", "/">> \o h \o <<"/", "g", "i", "t", "/">> \o o \o <<"/">> \o r :
        h \in RemoteHosts, o \in RemoteOrgs, r \in RemoteRepos}
    \cup {<<"h", "t", "t", "p", ":", "/", "/", "p", "@">> \o h \o <<"/", "g", "i", "t", "/">> \o o \o <<"/">> \o r :
        h \in RemoteHosts, o \in RemoteOrgs, r \in RemoteRepos}

InitRemote ==
    /\ Fresh
    /\ run \in [cmd : {"remote"}, url : RemoteURLs, org : RemoteOrgs, repo : RemoteRepos]
    /\ \E i \in 1..Len(run.url) :
          SubSeq(run.url, i, Len(run.url)) = <<"/">> \o run.org \o <<"/">> \o run.repo
          \/ SubSeq(run.url, i, Len(run.url)) = <<":">> \o run.org \o <<"/">> \o run.repo

\* GetRepoInfo on the remote as it is and on the remote with ".git"
ParseRemote ==
    /\ run.cmd = "remote"
    /\ run' = [run EXCEPT !.cmd = "parsed"] @@
              [plain |-> ParseRemoteURL(run.url),
               dotgit |-> ParseRemoteURL(run.url \o DotGit)]
    /\ UNCHANGED <<dirs, dirty, wtmeta, lbr, rbr, prs, closed, mainLocal, mainOrigin,
                   cwd, nruns, nfaulty>>

NextRemote == ParseRemote

SpecRemote == InitRemote /\ [][NextRemote]_vars

(***************************************************************************)
(* FindWorktreeByIssue on a file system: the base path is part of the      *)
(* pattern that filepath.Glob reads.                                       *)
(***************************************************************************)
Join(dir, name) == dir \o <<"/">> \o name

\* the index of the "]" that closes the class opened at pattern[1], 0 if none
ClassEnd(pattern) ==
    IF \E j \in 3..Len(pattern) : pattern[j] = "]"
    THEN CHOOSE j \in 3..Len(pattern) :
             pattern[j] = "]" /\ \A i \in 3..(j - 1) : pattern[i] # "]"
    ELSE 0

\* filepath.Match, component by component: '*' and '?' stay within a
\* component, "[...]" is a class of characters, the rest is literal
RECURSIVE Match(_, _)
Match(pattern, name) ==
    IF pattern = <<>> THEN name = <<>>
    ELSE IF Head(pattern) = "*"
    THEN \E k \in 0..Len(name) :
            /\ \A i \in 1..k : name[i] # "/"
            /\ Match(Tail(pattern), SubSeq(name, k + 1, Len(name)))
    ELSE IF Head(pattern) = "?"
    THEN name # <<>> /\ Head(name) # "/" /\ Match(Tail(pattern), Tail(name))
    ELSE IF Head(pattern) = "["
    THEN /\ ClassEnd(pattern) > 0
         /\ name # <<>>
         /\ Head(name) \in {pattern[i] : i \in 2..(ClassEnd(pattern) - 1)}
         /\ Match(SubSeq(pattern, ClassEnd(pattern) + 1, Len(pattern)), Tail(name))
    ELSE name # <<>> /\ Head(name) = Head(pattern) /\ Match(Tail(pattern), Tail(name))

\* filepath.Glob over the paths that exist
Glob(paths, pattern) == {p \in paths : Match(pattern, p)}

\* FindWorktreeByIssue(base, issueNumber): the first match of base/N-*
FindWorktreeByIssueUnder(paths, base, issueNumber) ==
    LET matches == Glob(paths, Join(base, Itoa(issueNumber) \o <<"-", "*">>))
    IN  IF matches = {} THEN <<>>
        ELSE CHOOSE d \in matches : \A e \in matches : e = d \/ StrLess(d, e)

\* base paths: a plain one, and one with a bracket in its name
FindBases == {<<"w">>, <<"w", "[", "1", "]">>}

\* the directories that can exist next to each other
FindDirs == FindBases \cup {<<"w", "1">>}

\* worktrees of issue 4 and of issue 42
FindNames == {<<"4", "-", "a">>, <<"4", "2", "-", "x">>}

FindNumbers == {4, 42, 7}

InitFind ==
    /\ Fresh
    /\ run \in {r \in [cmd : {"find"}, base : FindBases, n : FindNumbers,
                        disk : SUBSET FindDirs, entries : SUBSET (FindDirs \X FindNames)] :
                    \A e \in r.entries : e[1] \in r.disk}

\* the names directly under the base path
Under(base) == {e[2] : e \in {x \in run.entries : x[1] = base}}

\* every path below the directories that exist
Paths == {Join(e[1], e[2]) : e \in run.entries}

FindByIssue ==
    /\ run.cmd = "find"
    /\ run' = [run EXCEPT !.cmd = "found"] @@
              [found |-> FindWorktreeByIssueUnder(Paths, run.base, run.n)]
    /\ UNCHANGED <<dirs, dirty, wtmeta, lbr, rbr, prs, closed, mainLocal, mainOrigin,
                   cwd, nruns, nfaulty>>

NextFind == FindByIssue

SpecFind == InitFind /\ [][NextFind]_vars

(***************************************************************************)
(* status: the listing of the worktrees, one loop pass per directory.      *)
(***************************************************************************)
\* the directories under the base path: two worktrees, the number of one a
\* prefix of the other's, and a directory that is no worktree
ListNames ==
    {WorktreeName(42, TitleOf(42)), WorktreeName(4, TitleOf(4)), <<"t", "m", "p">>}

\* os.ReadDir returns the entries sorted by name
RECURSIVE SortedNames(_)
SortedNames(S) ==
    IF S = {} THEN <<>>
    ELSE LET d == CHOOSE x \in S : \A e \in S : e = x \/ StrLess(x, e)
         IN  <<d>> \o SortedNames(S \ {d})

\* ListWorktrees: the directories under the base path
ListWorktrees(w) == SortedNames(w.dirs)

\* how the sub-queries for one worktree can go
RowEnvs ==
    [statusFail : BOOLEAN, ahead : {"fail", "even", "ahead"},
     prLookupFail : BOOLEAN, prStateFail : BOOLEAN]

\* the PR part of a row
StatusPR(st, branchName, env) ==
    LET s1 == Call(st, "pr_list", branchName, 0, "")
        pr == GetPRForBranch(st.w, branchName, env.prLookupFail)
    IN  IF pr.err = "" /\ pr.num > 0
        THEN LET state == GetPRState(st.w, pr.num, env.prStateFail)
             IN  [st |-> Call(s1, "pr_view", <<>>, pr.num, ""),
                  pr |-> IF state.err = "" THEN state.state ELSE ""]
        ELSE [st |-> s1, pr |-> "no PR"]

\* a loop pass that gives up the row when the PR lookup fails
StatusRowSkipping(st, dir, env) ==
    IF env.prLookupFail THEN Call(st, "git_status", dir, 0, "")
    ELSE Println(Call(st, "git_status", dir, 0, ""), "row", dir)

\* one pass of the loop of runStatus: the sub-queries and the printed row
StatusRow(st, dir, env) ==
    LET issue == LeadingIssue(dir)
        s1 == Call(st, "git_status", dir, 0, "")
        changed == ~env.statusFail /\ HasUncommittedChanges(st.w, dir)
        s2 == IF changed THEN Call(s1, "git_status_short", dir, 0, "") ELSE s1
        s3 == Call(s2, "rev_list", dir, 0, "")
        p == IF issue.ok /\ issue.num > 0 THEN StatusPR(s3, dir, env)
             ELSE [st |-> s3, pr |-> ""]
    IN  [p.st EXCEPT !.out = Append(@, [kind |-> "row", text |-> dir,
                                        at |-> Len(p.st.calls), changed |-> changed,
                                        push |-> IF env.ahead = "ahead" THEN "ahead"
                                                 ELSE "",
                                        pr |-> p.pr])]

\* the PRs a branch can have on the tracker: none, or one in any state
ListPRs ==
    {<<>>} \cup {[p \in {100} |-> [head |-> d, state |-> s, body |-> <<>>]] :
                   d \in ListNames, s \in {"OPEN", "MERGED", "CLOSED"}}

InitListing ==
    /\ dirs \in SUBSET ListNames
    /\ dirty \in SUBSET dirs
    /\ wtmeta = dirs
    /\ lbr = dirs
    /\ rbr = {}
    /\ prs \in ListPRs
    /\ closed = {}
    /\ mainLocal = {}
    /\ mainOrigin = {}
    /\ cwd = <<>>
    /\ nruns = 0
    /\ nfaulty = 0
    /\ run = [cmd |-> "status", st |-> Begin(World), todo |-> <<>>, pre |-> World]

\* the header, and the list of the directories
StatusList ==
    /\ run.cmd = "status"
    /\ LET s1 == Println(Println(run.st, "head", <<>>), "head", <<>>)
           worktrees == ListWorktrees(World)
       IN  run' = IF Len(worktrees) = 0
                  THEN [run EXCEPT !.cmd = "status_done",
                                   !.st = Return(Println(s1, "none", <<>>))]
                  ELSE [run EXCEPT !.cmd = "status_rows", !.st = s1,
                                   !.todo = worktrees]
    /\ UNCHANGED <<dirs, dirty, wtmeta, lbr, rbr, prs, closed, mainLocal, mainOrigin,
                   cwd, nruns, nfaulty>>

\* one pass of the loop
StatusNextRow ==
    /\ run.cmd = "status_rows"
    /\ run.todo # <<>>
    /\ \E env \in RowEnvs :
          run' = [run EXCEPT !.st = StatusRow(@, Head(run.todo), env),
                             !.todo = Tail(@)]
    /\ UNCHANGED <<dirs, dirty, wtmeta, lbr, rbr, prs, closed, mainLocal, mainOrigin,
                   cwd, nruns, nfaulty>>

\* the loop is over
StatusEnd ==
    /\ run.cmd = "status_rows"
    /\ run.todo = <<>>
    /\ run' = [run EXCEPT !.cmd = "status_done", !.st = Return(@)]
    /\ UNCHANGED <<dirs, dirty, wtmeta, lbr, rbr, prs, closed, mainLocal, mainOrigin,
                   cwd, nruns, nfaulty>>

NextListing ==
    \/ StatusList
    \/ StatusNextRow
    \/ StatusEnd

SpecListing == InitListing /\ [][NextListing]_vars

(***************************************************************************)
(* clean: the worktrees that are gone are pruned and the local branches    *)
(* without a remote branch are deleted.                                    *)
(***************************************************************************)
MainNames == {<<"m", "a", "i", "n">>, <<"m", "a", "s", "t", "e", "r">>}

\* the local branches there can be: main, master, the branch of an issue
\* and a branch of the operator's own
CleanBranches == MainNames \cup {WorktreeName(42, TitleOf(42)), <<"e", "x", "p">>}

CleanEnvs == [fetchFail : BOOLEAN, listFail : BOOLEAN, delFail : BOOLEAN]

\* the loop of runClean over the local branches: the branches to delete
BranchesToDelete(w) ==
    SortedNames({branch \in w.lbr :
                    /\ branch \notin MainNames
                    /\ branch \notin w.dirs
                    /\ ~RemoteBranchExists(w, branch)})

\* the loop of runClean that deletes the branches
RECURSIVE CleanDelete(_, _, _)
CleanDelete(st, branches, fail) ==
    IF branches = <<>> THEN st
    ELSE LET d == DeleteBranch(st, Head(branches), fail)
         IN  CleanDelete(IF d.err = "" THEN Info(d.st) ELSE d.st, Tail(branches), fail)

runClean(w, confirm, env) ==
    LET s1 == PruneWorktrees(Info(Begin(w)))
        s2 == Call(Info(s1), "fetch_prune", <<>>, 0, "")
        s3 == IF env.fetchFail THEN Warn(s2, "Failed to fetch") ELSE s2
        branchesToDelete == BranchesToDelete(s3.w)
    IN  IF env.listFail THEN Die(s3, "Failed to list branches")
        ELSE IF Len(branchesToDelete) = 0 THEN Return(Info(s3))
        ELSE IF ~confirm THEN Return(Println(s3, "list", <<>>))
        ELSE Return(CleanDelete(Println(s3, "list", <<>>), branchesToDelete, env.delFail))

\* a repository: its local branches, the branches on the remote, the
\* worktree directories, the worktrees the VCS knows, and the branches that
\* were pushed at some time
InitClean ==
    /\ lbr \in SUBSET CleanBranches
    /\ rbr \in SUBSET CleanBranches
    /\ dirs \in SUBSET (CleanBranches \ MainNames)
    /\ wtmeta \in SUBSET (CleanBranches \ MainNames)
    /\ dirty = {}
    /\ prs = <<>>
    /\ closed = {}
    /\ mainLocal = {}
    /\ mainOrigin = {}
    /\ cwd = <<>>
    /\ nruns = 0
    /\ nfaulty = 0
    /\ run \in {r \in [cmd : {"none"}, pushed : SUBSET CleanBranches] : rbr \subseteq r.pushed}

Clean ==
    /\ run.cmd = "none"
    /\ \E confirm \in BOOLEAN, env \in CleanEnvs :
          LET st == runClean(World, confirm, env)
          IN  /\ lbr' = st.w.lbr
              /\ wtmeta' = st.w.wtmeta
              /\ run' = [cmd |-> "clean", pushed |-> run.pushed, pre |-> World,
                         confirm |-> confirm, env |-> env, calls |-> st.calls,
                         warns |-> st.warns, exit |-> st.exit]
    /\ UNCHANGED <<dirs, dirty, rbr, prs, closed, mainLocal, mainOrigin, cwd, nruns, nfaulty>>

NextClean == Clean

SpecClean == InitClean /\ [][NextClean]_vars

(***************************************************************************)
(* UpdateIssueStatus with the scope check spelled out: CheckProjectScopes  *)
(* reads the output of gh auth status and asks for the project scope once. *)
(***************************************************************************)
\* strings.Contains
Contains(s, sub) ==
    \E i \in 0..(Len(s) - Len(sub)) : SubSeq(s, i + 1, i + Len(sub)) = sub

ProjectWord == <<"p", "r", "o", "j", "e", "c", "t">>

\* the scopes a token can hold: project is board read and write,
\* read:project is board read only
RepoScope == <<"r", "e", "p", "o">>

ReadProjectScope == <<"r", "e", "a", "d", ":">> \o ProjectWord

ProjectScope == ProjectWord

Credentials == SUBSET {RepoScope, ReadProjectScope, ProjectScope}

HoldsBoardRead(scopes) == ReadProjectScope \in scopes \/ ProjectScope \in scopes

HoldsBoardWrite(scopes) == ProjectScope \in scopes

\* the line of gh auth status that lists the scopes of the token
AuthStatusOutput(scopes) ==
    LET quoted(x) == IF x \in scopes THEN <<"'">> \o x \o <<"'", ",">> ELSE <<>>
    IN  <<"s", "c", "o", "p", "e", "s", ":">> \o quoted(RepoScope)
            \o quoted(ReadProjectScope) \o quoted(ProjectScope)

\* CheckProjectScopes: the result is [st, err, scopes], scopes being what
\* the token holds afterwards
CheckProjectScopes(st, auth) ==
    LET s1 == Call(st, "auth_status", <<>>, 0, "")
        hasProject == Contains(AuthStatusOutput(auth.scopes), ProjectWord)
        s2 == Call(Info(Warn(s1, "Missing required GitHub scopes")),
                   "auth_refresh", <<>>, 0, "")
    IN  IF auth.statusFail
        THEN [st |-> s1, err |-> [kind |-> "scope", item |-> 0], scopes |-> auth.scopes]
        ELSE IF hasProject
        THEN [st |-> s1, err |-> NoErr, scopes |-> auth.scopes]
        ELSE IF auth.refreshFail
        THEN [st |-> s2, err |-> [kind |-> "refresh", item |-> 0], scopes |-> auth.scopes]
        ELSE [st |-> Info(s2), err |-> NoErr, scopes |-> auth.scopes \cup {ProjectScope}]

\* an UpdateIssueStatus that looks the items up whatever the scope check said
UpdateIssueStatusHeedless(st, issueNumber, statusValue, cfg, auth, benv) ==
    LET s0 == Call(VerboseInfo(st, cfg.verbose), "look_path", <<>>, 0, "")
        cs == CheckProjectScopes(VerboseInfo(s0, cfg.verbose), auth)
    IN  IF ~auth.gh
        THEN [st |-> VerboseWarn(s0, cfg.verbose, "gh CLI not found in PATH"),
              err |-> [kind |-> "nogh", item |-> 0], scopes |-> auth.scopes]
        ELSE StatusAfterScopes(IF cfg.checkScopes THEN cs.st ELSE VerboseInfo(s0, cfg.verbose),
                               issueNumber, statusValue, benv, cfg.verbose)
                 @@ [scopes |-> auth.scopes]

\* UpdateIssueStatus: the result is [st, err, scopes]
UpdateIssueStatusScoped(st, issueNumber, statusValue, cfg, auth, benv) ==
    LET s0 == Call(VerboseInfo(st, cfg.verbose), "look_path", <<>>, 0, "")
        s1 == VerboseInfo(s0, cfg.verbose)
        cs == CheckProjectScopes(s1, auth)
    IN  IF ~auth.gh
        THEN [st |-> VerboseWarn(s0, cfg.verbose, "gh CLI not found in PATH"),
              err |-> [kind |-> "nogh", item |-> 0], scopes |-> auth.scopes]
        ELSE IF ~cfg.checkScopes
        THEN StatusAfterScopes(s1, issueNumber, statusValue, benv, cfg.verbose)
                 @@ [scopes |-> auth.scopes]
        ELSE IF cs.err # NoErr
        THEN [st |-> VerboseWarn(cs.st, cfg.verbose, "Scope check failed"),
              err |-> cs.err, scopes |-> cs.scopes]
        ELSE StatusAfterScopes(VerboseInfo(cs.st, cfg.verbose), issueNumber,
                               statusValue, benv, cfg.verbose)
                 @@ [scopes |-> cs.scopes]

\* the CLI, the login and the token of the caller
Auths ==
    [gh : BOOLEAN, statusFail : BOOLEAN, refreshFail : BOOLEAN, scopes : Credentials]

\* the board's side after the scope check: the item lookup failing, or the
\* outcomes of the linked items
ItemEnvs ==
    [pre : {"items"}, outs : {<<>>}]
    \cup [pre : {"ok"}, outs : UNION {[1..k -> ItemOutcomes] : k \in 0..MaxItems}]

InitScopes ==
    /\ Fresh
    /\ run \in [cmd : {"scoped"}, issue : {IssuePool[1]}, value : {InProgressValue},
                cfg : [verbose : BOOLEAN, checkScopes : BOOLEAN],
                auth : Auths, benv : ItemEnvs]

\* one call of UpdateIssueStatus
SetStatus ==
    /\ run.cmd = "scoped"
    /\ LET r == UpdateIssueStatusScoped(Begin(World), run.issue, run.value, run.cfg,
                                        run.auth, run.benv)
       IN  run' = [run EXCEPT !.cmd = "scoped_done"] @@
                  [calls |-> r.st.calls, warns |-> r.st.warns, err |-> r.err,
                   scopes |-> r.scopes]
    /\ UNCHANGED <<dirs, dirty, wtmeta, lbr, rbr, prs, closed, mainLocal, mainOrigin,
                   cwd, nruns, nfaulty>>

NextScopes == SetStatus

SpecScopes == InitScopes /\ [][NextScopes]_vars

(***************************************************************************)
(* RemoveWorktree on its own: one call on a file system in which the       *)
(* directory, the bookkeeping of git and the changes may each be there or  *)
(* not.                                                                    *)
(***************************************************************************)
RemovePaths ==
    {WorktreeName(IssuePool[i], TitleOf(IssuePool[i])) :
        i \in 1..Min(MaxPaths, Len(IssuePool))}

InitRemove ==
    /\ dirs \in SUBSET RemovePaths
    /\ dirty \in SUBSET dirs
    /\ wtmeta \in SUBSET RemovePaths
    /\ lbr = {} /\ rbr = {} /\ prs = <<>> /\ closed = {}
    /\ mainLocal = {} /\ mainOrigin = {} /\ cwd = <<>>
    /\ nruns = 0 /\ nfaulty = 0
    /\ run \in [cmd : {"remove"}, path : RemovePaths, force : BOOLEAN,
                genv : [gitFail : BOOLEAN, rmAllFail : BOOLEAN]]

\* one call of RemoveWorktree
Remove ==
    /\ run.cmd = "remove"
    /\ LET r == RemoveWorktree(Begin(World), run.path, run.force, run.genv)
       IN  /\ dirs' = r.st.w.dirs
           /\ dirty' = r.st.w.dirty
           /\ wtmeta' = r.st.w.wtmeta
           /\ run' = [run EXCEPT !.cmd = "removed"] @@
                     [pre |-> World, calls |-> r.st.calls, err |-> r.err]
    /\ UNCHANGED <<lbr, rbr, prs, closed, mainLocal, mainOrigin, cwd, nruns, nfaulty>>

NextRemove == Remove

SpecRemove == InitRemove /\ [][NextRemove]_vars

(***************************************************************************)
(* The fields of a project board: GetProjectField with its cache, and      *)
(* GetFieldOptionID.  fold tells the two copies of the package apart: the  *)
(* one compares names with strings.EqualFold, the other with ==.           *)
(***************************************************************************)
\* strings.EqualFold on the letters of the model
EqualFold(a, b) ==
    /\ Len(a) = Len(b)
    /\ \A i \in 1..Len(a) : ToLowerChar(a[i]) = ToLowerChar(b[i])

SameName(fold, a, b) == IF fold THEN EqualFold(a, b) ELSE a = b

CacheKey(projectID, fieldName) == projectID \o <<":">> \o fieldName

NoField == [id |-> "", name |-> <<>>, options |-> <<>>]

\* the first field of the list with the name, 0 when there is none
FirstField(fields, fieldName, fold) ==
    LET hits == {i \in 1..Len(fields) : SameName(fold, fields[i].name, fieldName)}
    IN  IF hits = {} THEN 0 ELSE CHOOSE i \in hits : \A j \in hits : i <= j

\* a GetProjectField that asks the board every time
GetProjectFieldUncached(cache, projectID, fieldName, remote, fold) ==
    LET k == FirstField(remote.fields, fieldName, fold)
    IN  IF remote.fail \/ k = 0
        THEN [cache |-> cache, ok |-> FALSE, field |-> NoField, fetched |-> TRUE]
        ELSE [cache |-> (CacheKey(projectID, fieldName) :> remote.fields[k]) @@ cache,
              ok |-> TRUE, field |-> remote.fields[k], fetched |-> TRUE]

\* GetProjectField: the result is the cache afterwards, the field, and
\* whether the board was asked; remote is what the board answers
GetProjectField(cache, projectID, fieldName, remote, fold) ==
    LET cacheKey == CacheKey(projectID, fieldName)
        k == FirstField(remote.fields, fieldName, fold)
    IN  IF cacheKey \in DOMAIN cache
        THEN [cache |-> cache, ok |-> TRUE, field |-> cache[cacheKey], fetched |-> FALSE]
        ELSE IF remote.fail \/ k = 0
        THEN [cache |-> cache, ok |-> FALSE, field |-> NoField, fetched |-> TRUE]
        ELSE [cache |-> (cacheKey :> remote.fields[k]) @@ cache,
              ok |-> TRUE, field |-> remote.fields[k], fetched |-> TRUE]

\* GetFieldOptionID: the identifier of the first option with the name
GetFieldOptionID(field, optionName, fold) ==
    LET hits == {i \in 1..Len(field.options) :
                    SameName(fold, field.options[i].name, optionName)}
    IN  IF hits = {} THEN [ok |-> FALSE, id |-> ""]
        ELSE [ok |-> TRUE,
              id |-> field.options[CHOOSE i \in hits : \A j \in hits : i <= j].id]

\* the boards of the model: their fields and the options of the fields
ProjectIDs == {<<"P", "1">>, <<"P", "2">>}

FieldNames == {<<"S", "t">>, <<"s", "t">>, <<"S", "T">>}

OptionNames == {<<"D", "o">>, <<"d", "o">>, <<"T", "o">>}

StatusOptions ==
    <<[id |-> "O1", name |-> <<"T", "o">>], [id |-> "O2", name |-> <<"D", "o">>]>>

ShoutedOptions ==
    <<[id |-> "O3", name |-> <<"D", "O">>], [id |-> "O4", name |-> <<"d", "o">>]>>

StatusField == [id |-> "F1", name |-> <<"S", "t">>, options |-> StatusOptions]

LowerField == [id |-> "F2", name |-> <<"s", "t">>, options |-> ShoutedOptions]

OtherField == [id |-> "F3", name |-> <<"P", "r">>, options |-> <<>>]

FieldLists ==
    {<<>>, <<StatusField>>, <<OtherField, StatusField>>, <<LowerField, StatusField>>,
     <<OtherField>>, <<StatusField, LowerField>>}

\* what the board answers to one fetch
Remotes ==
    [fail : {TRUE}, fields : {<<>>}] \cup [fail : {FALSE}, fields : FieldLists]

InitFields ==
    /\ Fresh
    /\ run = [cmd |-> "fields", cache |-> <<>>, n |-> 0, project |-> <<>>,
              name |-> <<>>, ok |-> FALSE, field |-> NoField, fetched |-> FALSE]

\* one call of GetProjectField in the process; the board may have been
\* edited since the call before
ResolveField ==
    /\ run.cmd = "fields"
    /\ run.n < MaxCalls
    /\ \E projectID \in ProjectIDs, fieldName \in FieldNames, remote \in Remotes :
          LET r == GetProjectField(run.cache, projectID, fieldName, remote, TRUE)
          IN  run' = [cmd |-> "fields", cache |-> r.cache, n |-> run.n + 1,
                      project |-> projectID, name |-> fieldName, ok |-> r.ok,
                      field |-> r.field, fetched |-> r.fetched]
    /\ UNCHANGED <<dirs, dirty, wtmeta, lbr, rbr, prs, closed, mainLocal, mainOrigin,
                   cwd, nruns, nfaulty>>

NextFields == ResolveField

SpecFields == InitFields /\ [][NextFields]_vars

(***************************************************************************)
(* One item of the loop of UpdateIssueStatus with the names spelled out:   *)
(* the field is resolved, then the option, then the item is written.       *)
(***************************************************************************)
\* the result is what was resolved and whether the item was written
ResolveAndWrite(fields, fieldName, optionName, fold) ==
    LET f == GetProjectField(<<>>, <<"P", "1">>, fieldName,
                             [fail |-> FALSE, fields |-> fields], fold)
        o == GetFieldOptionID(f.field, optionName, fold)
    IN  IF ~f.ok
        THEN [fieldOk |-> FALSE, fieldId |-> "", optionOk |-> FALSE, optionId |-> "",
              wrote |-> FALSE]
        ELSE IF ~o.ok
        THEN [fieldOk |-> TRUE, fieldId |-> f.field.id, optionOk |-> FALSE,
              optionId |-> "", wrote |-> FALSE]
        ELSE [fieldOk |-> TRUE, fieldId |-> f.field.id, optionOk |-> TRUE,
              optionId |-> o.id, wrote |-> TRUE]

InitOptions ==
    /\ Fresh
    /\ run \in [cmd : {"option"}, fold : BOOLEAN, fields : FieldLists,
                fieldName : FieldNames, optionName : OptionNames]

ResolveOption ==
    /\ run.cmd = "option"
    /\ run' = [run EXCEPT !.cmd = "option_done"] @@
              [res |-> ResolveAndWrite(run.fields, run.fieldName, run.optionName,
                                       run.fold)]
    /\ UNCHANGED <<dirs, dirty, wtmeta, lbr, rbr, prs, closed, mainLocal, mainOrigin,
                   cwd, nruns, nfaulty>>

NextOptions == ResolveOption

SpecOptions == InitOptions /\ [][NextOptions]_vars

(***************************************************************************)
(* The comment merge leaves on the issue: the commit message it reads, and *)
(* from which commit.                                                      *)
(***************************************************************************)
\* the branch of the issue being merged and the other places HEAD can be
MergedBranch == WorktreeName(IssuePool[1], TitleOf(IssuePool[1]))

OriginOf(branchName) == <<"o", "r", "i", "g", "i", "n", "/">> \o branchName

MainRef == <<"m", "a", "i", "n">>

OtherBranch == WorktreeName(IssuePool[2], TitleOf(IssuePool[2]))

CommitRefs == {MainRef, MergedBranch, OriginOf(MergedBranch), OtherBranch}

\* what git log -1 --pretty=%B prints for a commit
CommitMessages == {<<"f", "i", "x">>, <<"w", "i", "p">>, <<" ">>}

\* GetLastCommitMessage: git log -1 of the ref, of HEAD in the current
\* directory when ref is empty; the output is trimmed
GetLastCommitMessage(tips, head, ref) ==
    TrimSpace(IF ref = <<>> THEN tips[head] ELSE tips[ref])

\* the branch checked out in the directory the command runs in
HeadAt(place) ==
    IF place = "target" THEN MergedBranch
    ELSE IF place = "other" THEN OtherBranch
    ELSE MainRef

\* runMerge from the commit message to the merge call: the calls it makes
MergeWithComment(tips, place, worktreeExists, branchName) ==
    LET lastCommitMsg == IF worktreeExists
                         THEN GetLastCommitMessage(tips, HeadAt(place), <<>>)
                         ELSE GetLastCommitMessage(tips, HeadAt(place),
                                                   OriginOf(branchName))
    IN  (IF lastCommitMsg # <<>>
         THEN <<[op |-> "issue_comment", msg |-> lastCommitMsg]>>
         ELSE <<>>)
        \o <<[op |-> "merge_pr", msg |-> <<>>]>>

\* the trunk-based runMerge: the message is read before the merge, the
\* comment is made by CloseIssue after the push
TrunkWithComment(tips, place, branchName) ==
    LET lastCommitMsg == GetLastCommitMessage(tips, HeadAt(place), <<>>)
    IN  <<[op |-> "merge_branch", msg |-> <<>>],
          [op |-> "issue_comment", msg |-> lastCommitMsg]>>

InitComment ==
    /\ Fresh
    /\ run \in [cmd : {"comment"}, variant : {"pr", "trunk"},
                place : {"main", "target", "other"}, worktreeExists : BOOLEAN,
                tips : [CommitRefs -> CommitMessages]]
    /\ run.place = "target" => run.worktreeExists
    /\ run.variant = "trunk" => run.worktreeExists

\* merge for the first issue, by number or from inside its worktree
MergeComment ==
    /\ run.cmd = "comment"
    /\ run' = [run EXCEPT !.cmd = "commented"] @@
              [calls |-> IF run.variant = "pr"
                         THEN MergeWithComment(run.tips, run.place,
                                               run.worktreeExists, MergedBranch)
                         ELSE TrunkWithComment(run.tips, run.place, MergedBranch)]
    /\ UNCHANGED <<dirs, dirty, wtmeta, lbr, rbr, prs, closed, mainLocal, mainOrigin,
                   cwd, nruns, nfaulty>>

NextComment == MergeComment

SpecComment == InitComment /\ [][NextComment]_vars

(***************************************************************************)
(* selectIssue: the options create offers, from the open issues, their     *)
(* board status and the directories under the base path.                   *)
(***************************************************************************)
\* getExistingWorktreeIssues: the numbers the directory names start with
getExistingWorktreeIssues(names) ==
    {ExistingIssueOf(d).num : d \in {x \in names : ExistingIssueOf(x).ok}}

\* an offer in which the override also opens the issues with a worktree
OfferOfOverridden(issue, existingIssues, override) ==
    IF override /\ issue.status = InProgressValue THEN "started"
    ELSE IF override THEN "open"
    ELSE IF issue.number \in existingIssues THEN "exists"
    ELSE IF issue.status = InProgressValue THEN "held"
    ELSE "open"

\* how selectIssue offers one issue; override is --include-in-progress
OfferOf(issue, existingIssues, override) ==
    LET exists == issue.number \in existingIssues
        isInProgress == issue.status = InProgressValue
    IN  IF exists THEN "exists"
        ELSE IF isInProgress /\ ~override THEN "held"
        ELSE IF isInProgress THEN "started"
        ELSE "open"

selectIssueOptions(issues, names, override) ==
    [i \in 1..Len(issues) |->
        IssueOption(issues[i].number, issues[i].title,
                    OfferOf(issues[i], getExistingWorktreeIssues(names), override))]

\* the directories under the base path: worktrees of the offered issues
\* and directories that are none
OfferDirs ==
    {WorktreeName(OfferedIssues[i], TitleOf(OfferedIssues[i])) :
        i \in 1..Len(OfferedIssues)}
    \cup {<<"t", "m", "p">>, <<"7", "x", "-", "1">>}

\* the status of an issue on the board, "" for an issue on no board
OfferStatuses == {"", TodoValue, InProgressValue}

OpenIssueLists ==
    UNION {{[i \in 1..k |-> [number |-> OfferedIssues[i], title |-> <<"a">>,
                             status |-> st[i]]] :
               st \in [1..k -> OfferStatuses]} : k \in 1..Min(MaxOptions, Len(OfferedIssues))}

InitOffer ==
    /\ Fresh
    /\ run \in [cmd : {"offer"}, issues : OpenIssueLists, names : SUBSET OfferDirs,
                override : BOOLEAN]

\* selectIssue up to the call of the selector
BuildOptions ==
    /\ run.cmd = "offer"
    /\ run' = [run EXCEPT !.cmd = "offered"] @@
              [options |-> selectIssueOptions(run.issues, run.names, run.override)]
    /\ UNCHANGED <<dirs, dirty, wtmeta, lbr, rbr, prs, closed, mainLocal, mainOrigin,
                   cwd, nruns, nfaulty>>

NextOffer == BuildOptions

SpecOffer == InitOffer /\ [][NextOffer]_vars

(***************************************************************************)
(* Two create invocations for the same issue at the same time: each goes   *)
(* through createWorktree step by step, the steps of the two interleaved.  *)
(***************************************************************************)
Racers == 1..2

RaceIssue == IssuePool[1]

RacePath == WorktreeName(RaceIssue, TitleOf(RaceIssue))

\* a git worktree add that takes a path that is there already
RaceAddOkAnyPath(w, path, branchName, how, addFail) == ~addFail

\* git worktree add as one atomic step: refused for a path that exists or
\* that the bookkeeping knows, with -b for a branch that exists, and
\* without -b for a branch that is gone
RaceAddOk(w, path, branchName, how, addFail) ==
    /\ GitWorktreeAddOk(w, path, addFail)
    /\ path \notin w.dirs
    /\ how = "from_local" => branchName \in w.lbr
    /\ how # "from_local" => branchName \notin w.lbr

InitRace ==
    /\ dirs \in SUBSET {RacePath}
    /\ dirty = {}
    /\ wtmeta = dirs
    /\ lbr \in {b \in SUBSET {RacePath} : dirs \subseteq b}
    /\ rbr \in SUBSET {RacePath}
    /\ prs = <<>> /\ closed = {} /\ mainLocal = {} /\ mainOrigin = {}
    /\ cwd = <<>> /\ nruns = 0 /\ nfaulty = 0
    /\ run \in [cmd : {"race"}, silent : [Racers -> BOOLEAN],
                pc : {[p \in Racers |-> "stat"]}, how : {[p \in Racers |-> ""]},
                created : {{}}, hooked : {{}}, boarded : {{}},
                out : {[p \in Racers |-> ""]}]

RaceUnchanged ==
    UNCHANGED <<dirty, rbr, prs, closed, mainLocal, mainOrigin, cwd, nruns, nfaulty>>

\* os.Stat(worktreePath): the directory is there, so die or print the path
RaceStat(p) ==
    /\ run.pc[p] = "stat"
    /\ run' = IF WorktreeExists(World, RacePath)
              THEN [run EXCEPT !.pc[p] = "done",
                               !.out[p] = IF run.silent[p] THEN "path" ELSE "die"]
              ELSE [run EXCEPT !.pc[p] = "fetch"]
    /\ UNCHANGED <<dirs, wtmeta, lbr>>
    /\ RaceUnchanged

\* git.Fetch
RaceFetch(p) ==
    /\ run.pc[p] = "fetch"
    /\ \E fetchFail \in BOOLEAN :
          run' = IF fetchFail
                 THEN [run EXCEPT !.pc[p] = "done", !.out[p] = "die"]
                 ELSE [run EXCEPT !.pc[p] = "local"]
    /\ UNCHANGED <<dirs, wtmeta, lbr>>
    /\ RaceUnchanged

\* git.BranchExists
RaceBranchExists(p) ==
    /\ run.pc[p] = "local"
    /\ run' = IF BranchExists(World, RacePath)
              THEN [run EXCEPT !.pc[p] = "add", !.how[p] = "from_local"]
              ELSE [run EXCEPT !.pc[p] = "remote"]
    /\ UNCHANGED <<dirs, wtmeta, lbr>>
    /\ RaceUnchanged

\* git.RemoteBranchExists
RaceRemoteBranchExists(p) ==
    /\ run.pc[p] = "remote"
    /\ run' = [run EXCEPT !.pc[p] = "add",
                          !.how[p] = IF RemoteBranchExists(World, RacePath)
                                     THEN "from_remote" ELSE "from_main"]
    /\ UNCHANGED <<dirs, wtmeta, lbr>>
    /\ RaceUnchanged

\* git worktree add, in the way chosen before
RaceAdd(p) ==
    /\ run.pc[p] = "add"
    /\ \E addFail \in BOOLEAN :
          IF RaceAddOk(World, RacePath, RacePath, run.how[p], addFail)
          THEN /\ dirs' = dirs \cup {RacePath}
               /\ wtmeta' = wtmeta \cup {RacePath}
               /\ lbr' = lbr \cup {RacePath}
               /\ run' = [run EXCEPT !.pc[p] = "hook", !.created = @ \cup {p}]
          ELSE /\ UNCHANGED <<dirs, wtmeta, lbr>>
               /\ run' = [run EXCEPT !.pc[p] = "done", !.out[p] = "die"]
    /\ RaceUnchanged

\* hooks.RunHook("create", ...)
RaceHook(p) ==
    /\ run.pc[p] = "hook"
    /\ run' = [run EXCEPT !.pc[p] = "board", !.hooked = @ \cup {p}]
    /\ UNCHANGED <<dirs, wtmeta, lbr>>
    /\ RaceUnchanged

\* UpdateIssueStatus to the in-progress value, and the return
RaceBoard(p) ==
    /\ run.pc[p] = "board"
    /\ run' = [run EXCEPT !.pc[p] = "done", !.boarded = @ \cup {p},
                          !.out[p] = "path"]
    /\ UNCHANGED <<dirs, wtmeta, lbr>>
    /\ RaceUnchanged

NextRace ==
    \E p \in Racers :
        \/ RaceStat(p)
        \/ RaceFetch(p)
        \/ RaceBranchExists(p)
        \/ RaceRemoteBranchExists(p)
        \/ RaceAdd(p)
        \/ RaceHook(p)
        \/ RaceBoard(p)

SpecRace == InitRace /\ [][NextRace]_vars

(***************************************************************************)
(* GetProjectField called by several goroutines at once: cacheMutex is a   *)
(* sync.RWMutex, held by any number of readers or by one writer.           *)
(***************************************************************************)
Callers == 1..2

\* no caller holds the write lock
NoWriter == 0

CacheUnchanged ==
    UNCHANGED <<dirs, dirty, wtmeta, lbr, rbr, prs, closed, mainLocal, mainOrigin,
                cwd, nruns, nfaulty>>

InitCache ==
    /\ Fresh
    /\ run \in [cmd : {"cache"}, project : [Callers -> ProjectIDs],
                name : [Callers -> {<<"S", "t">>, <<"s", "t">>}],
                pc : {[p \in Callers |-> "rlock"]}, readers : {{}},
                writer : {NoWriter}, cache : {<<>>},
                fetched : {{}}, found : {[p \in Callers |-> NoField]},
                res : {[p \in Callers |-> [ok |-> FALSE, field |-> NoField]]}]

KeyOf(p) == CacheKey(run.project[p], run.name[p])

\* a Lock that does not wait for the readers and the writer to leave
CacheLockBarging(p) ==
    /\ run.pc[p] = "lock"
    /\ run' = [run EXCEPT !.pc[p] = "store", !.writer = p]
    /\ CacheUnchanged

\* cacheMutex.RLock(): waits while a writer holds the lock
CacheRLock(p) ==
    /\ run.pc[p] = "rlock"
    /\ run.writer = NoWriter
    /\ run' = [run EXCEPT !.pc[p] = "read", !.readers = @ \cup {p}]
    /\ CacheUnchanged

\* cached, ok := fieldCache[cacheKey]
CacheRead(p) ==
    /\ run.pc[p] = "read"
    /\ run' = IF KeyOf(p) \in DOMAIN run.cache
              THEN [run EXCEPT !.pc[p] = "runlock_hit", !.found[p] = run.cache[KeyOf(p)]]
              ELSE [run EXCEPT !.pc[p] = "runlock_miss"]
    /\ CacheUnchanged

\* cacheMutex.RUnlock(), and the return on a hit
CacheRUnlock(p) ==
    /\ run.pc[p] \in {"runlock_hit", "runlock_miss"}
    /\ run' = IF run.pc[p] = "runlock_hit"
              THEN [run EXCEPT !.pc[p] = "done", !.readers = @ \ {p},
                               !.res[p] = [ok |-> TRUE, field |-> run.found[p]]]
              ELSE [run EXCEPT !.pc[p] = "fetch", !.readers = @ \ {p}]
    /\ CacheUnchanged

\* gh api graphql, and the search for the field in the answer
CacheFetch(p) ==
    /\ run.pc[p] = "fetch"
    /\ \E remote \in Remotes :
          LET k == FirstField(remote.fields, run.name[p], TRUE)
          IN  run' = IF remote.fail \/ k = 0
                     THEN [run EXCEPT !.pc[p] = "done", !.fetched = @ \cup {p}]
                     ELSE [run EXCEPT !.pc[p] = "lock", !.fetched = @ \cup {p},
                                      !.found[p] = remote.fields[k]]
    /\ CacheUnchanged

\* cacheMutex.Lock(): waits while readers or a writer hold the lock
CacheLock(p) ==
    /\ run.pc[p] = "lock"
    /\ run.writer = NoWriter
    /\ run.readers = {}
    /\ run' = [run EXCEPT !.pc[p] = "store", !.writer = p]
    /\ CacheUnchanged

\* fieldCache[cacheKey] = &field
CacheStore(p) ==
    /\ run.pc[p] = "store"
    /\ run' = [run EXCEPT !.pc[p] = "unlock",
                          !.cache = (KeyOf(p) :> run.found[p]) @@ run.cache]
    /\ CacheUnchanged

\* cacheMutex.Unlock(), and the return
CacheUnlock(p) ==
    /\ run.pc[p] = "unlock"
    /\ run' = [run EXCEPT !.pc[p] = "done", !.writer = NoWriter,
                          !.res[p] = [ok |-> TRUE, field |-> run.found[p]]]
    /\ CacheUnchanged

NextCache ==
    \E p \in Callers :
        \/ CacheRLock(p)
        \/ CacheRead(p)
        \/ CacheRUnlock(p)
        \/ CacheFetch(p)
        \/ CacheLock(p)
        \/ CacheStore(p)
        \/ CacheUnlock(p)

SpecCache == InitCache /\ [][NextCache]_vars

(***************************************************************************)
(* What the last run was about, read from its record.                      *)
(***************************************************************************)
Ran(cmd) == run.cmd = cmd

\* the calls of the last run with operation op
CallsOf(op) == {i \in 1..Len(run.calls) : run.calls[i].op = op}

BoardOps == {"scope_check", "board_items", "board_field", "board_write"}

RemovalOps == {"worktree_remove", "remove_all"}

BranchOps == {"delete_branch", "delete_remote_branch"}

\* the worktree an rm run resolved, <<>> when it resolved none
RmWorktree ==
    IF ResolveIssueRm(run.pre, run.in).ok
    THEN FindWorktreeByIssue(run.pre.dirs, ResolveIssueRm(run.pre, run.in).num)
    ELSE <<>>

\* the issue a pr or merge run resolved, and its worktree
Target == ResolveIssue(run.pre, run.precwd, run.in)

TargetWorktree ==
    IF Target.ok THEN FindWorktreeByIssue(run.pre.dirs, Target.num) ELSE <<>>

(***************************************************************************)
(* C1: rm without --force on a worktree with uncommitted changes aborts    *)
(* and deletes nothing: after the run the directory and its changes are    *)
(* still there.                                                            *)
(***************************************************************************)
C1_RmDirtyAborts ==
    (Ran("rm") /\ ~run.flags.force /\ RmWorktree # <<>> /\ RmWorktree \in run.pre.dirty)
        => /\ run.exit = "die"
           /\ RmWorktree \in dirs
           /\ RmWorktree \in dirty

(***************************************************************************)
(* C2: after create(N) and a successful pr(N), which removed the worktree, *)
(* merge(N) on a mergeable PR with every call working merges the PR of     *)
(* branch N-<slug>, closes issue N and deletes the local and the remote    *)
(* branch.                                                                 *)
(***************************************************************************)
\* the open PR that pr(N) made for the branch of issue n is there, and the
\* worktree is gone
AfterCreateAndPr(n) ==
    /\ n \in Issues
    /\ WorktreeName(n, TitleOf(n)) \notin run.pre.dirs
    /\ \E p \in DOMAIN run.pre.prs :
          /\ run.pre.prs[p].head = WorktreeName(n, TitleOf(n))
          /\ run.pre.prs[p].state = "OPEN"
          /\ run.pre.prs[p].body = ClosesBody(n)

C2_MergeAfterPr ==
    (/\ Ran("merge")
     /\ run.in.kind = "arg"
     /\ AfterCreateAndPr(run.in.n)
     /\ MergeClean(run.env)
     /\ run.env.mergeable = "MERGEABLE" /\ run.env.mergeState = "CLEAN"
     /\ GetFailingChecks(run.env.checks) = {})
        => /\ run.exit = "ok"
           /\ \E p \in DOMAIN prs : /\ prs[p].head = WorktreeName(run.in.n, TitleOf(run.in.n))
                                    /\ prs[p].state = "MERGED"
           /\ run.in.n \in closed
           /\ WorktreeName(run.in.n, TitleOf(run.in.n)) \notin lbr \cup rbr

(***************************************************************************)
(* C3: no run of rm, whatever its flags, attempts to set the board status  *)
(* to the Todo value when the PR of the worktree's branch is merged.       *)
(***************************************************************************)
BranchPRMerged(w, branchName) ==
    \E p \in DOMAIN w.prs : w.prs[p].head = branchName /\ w.prs[p].state = "MERGED"

C3_RmNoTodoWhenMerged ==
    (Ran("rm") /\ RmWorktree # <<>> /\ BranchPRMerged(run.pre, RmWorktree))
        => \A i \in 1..Len(run.calls) : run.calls[i].op \notin BoardOps

(***************************************************************************)
(* C4: in create, pr, merge and rm a board update that returns an error    *)
(* changes nothing else: the run makes the same other calls in the same    *)
(* order, prints the same relocation line, ends with the same exit outcome *)
(* and leaves the same repository and tracker as the run in which the      *)
(* board update succeeds.                                                  *)
(***************************************************************************)
WithBoard == {"create", "_create", "pr", "merge_trunk", "rm"}

\* the board's side with every failure taken out
BoardFixed(b) == [pre |-> "ok", outs |-> [i \in 1..Len(b.outs) |-> "ok"]]

\* whether UpdateIssueStatus returns an error on this board's side
BoardErrs(b) ==
    UpdateIssueStatus(Begin(run.pre), CHOOSE n \in Issues : TRUE, TodoValue, b,
                      FALSE).err # NoErr

\* the command of the last run, run again on the same repository with the
\* same input, flags and settings, against other answers of the environment
Rerun(env) ==
    CASE run.cmd = "create" -> runCreate(run.pre, run.cfg, run.in, env)
      [] run.cmd = "_create" -> runInternalCreate(run.pre, run.cfg, run.in, env)
      [] run.cmd = "pr" -> runPR(run.pre, run.precwd, run.in, run.cfg, env)
      [] run.cmd = "merge" -> runMerge(run.pre, run.precwd, run.in, run.cfg, env)
      [] run.cmd = "merge_trunk" ->
            runMergeTrunk(run.pre, run.precwd, run.in, run.cfg, env)
      [] run.cmd = "rm" -> runRm(run.pre, run.precwd, run.in, run.flags, run.cfg, env)

GoodRun == Rerun([run.env EXCEPT !.board = BoardFixed(@)])

NotBoard(calls) == SelectSeq(calls, LAMBDA c : c.op \notin BoardOps)

Relocation(out) ==
    LET ls == SelectSeq(out, LAMBDA l : l.kind \in {"cd", "path"})
    IN  [j \in 1..Len(ls) |-> [kind |-> ls[j].kind, text |-> ls[j].text]]

\* the last run met a board update that returned an error
BoardUpdateFailed ==
    /\ run.cmd \in WithBoard
    /\ BoardErrs(run.env.board)
    /\ \E i \in 1..Len(GoodRun.calls) : GoodRun.calls[i].op \in BoardOps

C4_BoardErrorChangesNothingElse ==
    BoardUpdateFailed
        => /\ run.exit = GoodRun.exit
           /\ NotBoard(run.calls) = NotBoard(GoodRun.calls)
           /\ Relocation(run.out) = Relocation(GoodRun.out)
           /\ World = GoodRun.w

\* rm met a failed board update and deleted the branch after it
C4_Witness ==
    /\ Ran("rm")
    /\ BoardUpdateFailed
    /\ run.exit = "ok"
    /\ \E i \in CallsOf("scope_check") \cup CallsOf("board_write") :
          \E j \in CallsOf("delete_branch") : i < j
    /\ RmWorktree \in run.pre.lbr \ lbr

(***************************************************************************)
(* C5: when the PR report says mergeable = CONFLICTING, merge aborts: the  *)
(* run issues no merge call, no issue comment, no worktree removal and no  *)
(* branch deletion, whatever the report's other fields are.                *)
(***************************************************************************)
\* the last run was a merge that got the PR report
ReportRead == Ran("merge") /\ CallsOf("pr_status") # {} /\ ~run.env.statusFail

C5_ConflictingAborts ==
    (ReportRead /\ run.env.mergeable = "CONFLICTING")
        => /\ run.exit = "die"
           /\ \A i \in 1..Len(run.calls) :
                 run.calls[i].op \notin {"pr_merge", "issue_comment"} \cup RemovalOps
                                        \cup BranchOps
           /\ World = run.pre

C5_Witness ==
    /\ ReportRead
    /\ run.env.mergeable = "CONFLICTING"
    /\ run.env.mergeState = "BLOCKED"
    /\ TargetWorktree # <<>>
    /\ run.msg = "PR has merge conflicts. Resolve them first."

(***************************************************************************)
(* C6: when the PR report has no conflicts and all of its checks pass,     *)
(* merge reaches the merge call without asking for any confirmation.       *)
(***************************************************************************)
AllChecksPass == \A i \in 1..Len(run.env.checks) : run.env.checks[i] = "SUCCESS"

C6_PassingReportNoPrompt ==
    (ReportRead /\ run.env.mergeable # "CONFLICTING" /\ AllChecksPass)
        => CallsOf("pr_merge") # {} /\ CallsOf("confirm") = {}

\* C6, amended: when the PR report has no conflicts, its merge state is not
\* BLOCKED and all of its checks pass, merge reaches the merge call without
\* asking for any confirmation.
C6_UnblockedPassingReportNoPrompt ==
    (/\ ReportRead
     /\ run.env.mergeable # "CONFLICTING"
     /\ run.env.mergeState # "BLOCKED"
     /\ AllChecksPass)
        => CallsOf("pr_merge") # {} /\ CallsOf("confirm") = {}

C6_Witness ==
    /\ ReportRead
    /\ run.env.mergeable = "MERGEABLE"
    /\ run.env.mergeState = "CLEAN"
    /\ run.env.checks = <<"SUCCESS">>
    /\ CallsOf("pr_merge") # {}
    /\ run.exit = "ok"

(***************************************************************************)
(* C7: after merge has merged the PR of issue N it attempts the board      *)
(* update to the Done value, before it removes the worktree and deletes    *)
(* the branches.                                                           *)
(***************************************************************************)
\* the last run merged a PR
MergedAPR ==
    \E p \in DOMAIN run.pre.prs : run.pre.prs[p].state = "OPEN" /\ prs[p].state = "MERGED"

C7_MergeSetsDoneFirst ==
    (Ran("merge") /\ run.cfg.projectsEnabled /\ MergedAPR)
        => \E j \in 1..Len(run.calls) :
              /\ run.calls[j].op \in BoardOps
              /\ \A k \in 1..Len(run.calls) :
                    run.calls[k].op \in RemovalOps \cup BranchOps => j < k

(***************************************************************************)
(* C8: for an issue N with a worktree and a clean tree, when every         *)
(* external call succeeds, pr pushes the branch named like the worktree's  *)
(* leaf directory, creates a PR with that head and the body "Closes #N",   *)
(* and the worktree directory is gone when pr returns.                     *)
(***************************************************************************)
C8_PrPushesOpensRemoves ==
    (/\ Ran("pr")
     /\ TargetWorktree # <<>>
     /\ TargetWorktree \notin run.pre.dirty
     /\ PrClean(run.env))
        => /\ run.exit = "ok"
           /\ \E i \in CallsOf("push") : run.calls[i].name = TargetWorktree
           /\ TargetWorktree \in rbr
           /\ \E p \in DOMAIN prs \ DOMAIN run.pre.prs :
                 /\ prs[p].head = TargetWorktree
                 /\ prs[p].body = <<"C", "l", "o", "s", "e", "s", " ", "#">>
                                     \o Itoa(Target.num)
           /\ TargetWorktree \notin dirs

C8_Witness ==
    /\ Ran("pr")
    /\ TargetWorktree # <<>>
    /\ TargetWorktree \notin run.pre.dirty
    /\ PrClean(run.env)
    /\ run.precwd = <<TargetWorktree>>
    /\ DOMAIN prs # DOMAIN run.pre.prs
    /\ TargetWorktree \notin dirs

(***************************************************************************)
(* C9: for every issue number N >= 0 and every title, the worktree create  *)
(* makes has leaf directory name and branch name "<N>-<slugify(title)>",   *)
(* also for an empty slug, and FindWorktreeByIssue, DetectIssueNumber,     *)
(* ParseIssueFromBranch and the selector's scans recover N from that name. *)
(***************************************************************************)
ExpectedName == Itoa(run.n) \o <<"-">> \o Slugify(run.title)

Recovered(r) == r.ok /\ r.num = run.n

C9_NameRoundTrip ==
    /\ run.cmd \in {"named", "parsed"} => dirs = {ExpectedName} /\ lbr = {ExpectedName}
    /\ run.cmd = "parsed"
          => /\ run.found = ExpectedName
             /\ Recovered(run.detected)
             /\ Recovered(run.parsed)
             /\ Recovered(run.existing)
             /\ Recovered(run.selected)

\* issue 0 with a title whose slug is empty: the name is "0-"
C9_Witness ==
    /\ run.cmd = "parsed"
    /\ run.n = 0
    /\ run.title = <<"!", "-">>
    /\ dirs = {<<"0", "-">>}
    /\ Recovered(run.parsed)

(***************************************************************************)
(* C10: for an issue linked to k >= 1 board items, the update attempts     *)
(* every item, also after earlier items failed; it returns success iff at  *)
(* least one item's write succeeded, and otherwise the error of the last   *)
(* item that failed.                                                       *)
(***************************************************************************)
\* the items whose field lookup was attempted, in the order of the attempts
Attempted ==
    LET c == SelectSeq(run.acc.st.calls, LAMBDA x : x.op = "board_field")
    IN  [j \in 1..Len(c) |-> c[j].name]

C10_EveryItemTriedLastErrorReturned ==
    (run.cmd = "status_set" /\ Len(run.outs) >= 1)
        => /\ Attempted = [j \in 1..Len(run.outs) |-> Itoa(j)]
           /\ (run.err = NoErr) <=> (\E j \in 1..Len(run.outs) : run.outs[j] = "ok")
           /\ run.err # NoErr
                 => run.err = [kind |-> run.outs[Len(run.outs)], item |-> Len(run.outs)]

\* the first item fails, the second is written, the third fails
C10_Witness ==
    /\ run.cmd = "status_set"
    /\ run.outs = <<"field", "ok", "write">>
    /\ run.err = NoErr
    /\ Len(Attempted) = 3

(***************************************************************************)
(* C11: a board update for an issue that has no linked board item returns  *)
(* success and makes no field lookup and no board write: the command that  *)
(* asked for it goes on without a warning about the update.                *)
(***************************************************************************)
\* the last run asked the board for the items of an issue that has none
NoLinkedItems ==
    /\ run.cmd \in WithBoard
    /\ run.cfg.projectsEnabled
    /\ run.env.board = [pre |-> "ok", outs |-> <<>>]
    /\ CallsOf("board_items") # {}

C11_NoItemsNoWrite ==
    NoLinkedItems
        => /\ CallsOf("board_field") = {}
           /\ CallsOf("board_write") = {}
           /\ \A n \in Issues, v \in StatusValues :
                 UpdateIssueStatus(Begin(run.pre), n, v, run.env.board,
                                   run.cfg.verbose).err = NoErr
           /\ \A i \in 1..Len(run.warns) :
                 run.warns[i] \notin {"Failed to update project status",
                                     "Failed to get project items"}

\* a verbose create met a board that does not hold the issue
C11_Witness ==
    /\ Ran("create")
    /\ NoLinkedItems
    /\ run.cfg.verbose
    /\ run.exit = "ok"
    /\ Cardinality(CallsOf("board_items")) = 1

(***************************************************************************)
(* C12: create for an issue whose directory <N>-<slug> already exists      *)
(* makes no fetch, creates no worktree and no branch, runs no hook and     *)
(* updates no board; the interactive create exits with an error that names *)
(* the navigate and remove commands, the silent one returns the path.      *)
(***************************************************************************)
\* the last run was a create that got the issue and found its directory
CreateFoundDirectory ==
    /\ run.cmd \in {"create", "_create"}
    /\ run.in.kind = "arg"
    /\ ~run.env.authFail
    /\ GetIssue(run.in.n, run.env.issueFail).ok
    /\ WorktreeName(run.in.n, TitleOf(run.in.n)) \in run.pre.dirs

C12_ExistingDirectoryUntouched ==
    CreateFoundDirectory
        => /\ run.calls = <<>>
           /\ World = run.pre
           /\ Ran("create") => run.exit = "die" /\ run.msg = AlreadyExists
           /\ Ran("_create")
                 => /\ run.exit = "ok"
                    /\ \A i \in 1..Len(run.out) :
                          run.out[i].kind = "path"
                             => run.out[i].text
                                  = WorktreeName(run.in.n, TitleOf(run.in.n))
                    /\ \E i \in 1..Len(run.out) : run.out[i].kind = "path"

\* a silent create on a directory that has a local and a remote branch
C12_Witness ==
    /\ Ran("_create")
    /\ CreateFoundDirectory
    /\ WorktreeName(run.in.n, TitleOf(run.in.n)) \in lbr \cap rbr
    /\ run.exit = "ok"

(***************************************************************************)
(* C13: a create that makes a new worktree fetches first, and a failed     *)
(* fetch ends it with nothing created; then it makes exactly one creation  *)
(* call, from the local branch if there is one, else from the remote       *)
(* branch if there is one, else for a fresh branch cut from the main       *)
(* branch; the hook runs only after the creation worked, and the board     *)
(* update only after the hook.                                             *)
(***************************************************************************)
\* the last run was a create that got the issue and found no directory
CreateFoundNone ==
    /\ run.cmd \in {"create", "_create"}
    /\ run.in.kind = "arg"
    /\ ~run.env.authFail
    /\ GetIssue(run.in.n, run.env.issueFail).ok
    /\ WorktreeName(run.in.n, TitleOf(run.in.n)) \notin run.pre.dirs

NewName == WorktreeName(run.in.n, TitleOf(run.in.n))

\* the creation call the priority asks for, given the branches before the run
CreationByPriority(c) ==
    IF NewName \in run.pre.lbr THEN c.val = "from_local" /\ c.base = <<NewName>>
    ELSE IF NewName \in run.pre.rbr
    THEN c.val = "from_remote" /\ c.base = <<"origin", NewName>>
    ELSE c.val = "from_main" /\ c.base = <<"origin", run.cfg.mainBranch>>

C13_CreateOrder ==
    CreateFoundNone
        => /\ Len(run.calls) >= 1 /\ run.calls[1].op = "fetch"
           /\ run.env.fetchFail
                 => Len(run.calls) = 1 /\ run.exit = "die" /\ World = run.pre
           /\ ~(run.env.fetchFail \/ run.env.mkdirFail)
                 => /\ Cardinality(CallsOf("worktree_add")) = 1
                    /\ \A i \in CallsOf("worktree_add") :
                          /\ run.calls[i].name = NewName
                          /\ CreationByPriority(run.calls[i])
           /\ \A h \in CallsOf("hook") :
                 /\ NewName \in dirs
                 /\ \E i \in CallsOf("worktree_add") : i < h
           /\ \A b \in 1..Len(run.calls) :
                 run.calls[b].op \in BoardOps
                    => /\ NewName \in dirs
                       /\ \A h \in CallsOf("hook") : h < b
                       /\ \E i \in CallsOf("worktree_add") : i < b

(***************************************************************************)
(* C14: a silent create that succeeds writes exactly one line to standard  *)
(* output, the path of the worktree, whether it made the worktree or found *)
(* it; no message of the hook, of the board update or of a warning is on   *)
(* standard output.                                                        *)
(***************************************************************************)
C14_SilentCreateOneLine ==
    (Ran("_create") /\ run.exit = "ok")
        => /\ Len(run.out) = 1
           /\ run.out[1].kind = "path"
           /\ run.out[1].text = NewName

(***************************************************************************)
(* C15: rm, and the removal step of merge, do not end in an error when the *)
(* worktree directory of the issue is already absent: removing again after *)
(* a removal that worked is not a failure.                                 *)
(***************************************************************************)
\* the last run was an rm for an issue that has no worktree directory
RmOfAbsent ==
    /\ Ran("rm")
    /\ ResolveIssueRm(run.pre, run.in).ok
    /\ RmWorktree = <<>>

\* the last run was a merge that merged the PR of an issue without worktree
MergedWithoutWorktree ==
    /\ Ran("merge")
    /\ Target.ok
    /\ TargetWorktree = <<>>
    /\ CallsOf("pr_merge") # {}
    /\ ~run.env.mergeFail

C15_RemovingAbsentIsNoError ==
    /\ RmOfAbsent => run.exit = "ok"
    /\ MergedWithoutWorktree => run.exit = "ok" /\ \A i \in 1..Len(run.calls) :
                                                     run.calls[i].op \notin RemovalOps

(***************************************************************************)
(* C16: when rm removes a worktree whose branch's PR is merged, it         *)
(* attempts to delete the local branch and the remote branch, each if it   *)
(* exists, also without the delete-branch flag; when the PR is not merged  *)
(* and the flag is not given, it deletes no branch.                        *)
(***************************************************************************)
\* the last run was an rm without the flag that removed a worktree, with
\* both PR lookups answered
RmRemovedUnflagged ==
    /\ Ran("rm")
    /\ RmWorktree # <<>>
    /\ ~run.flags.deleteBranch
    /\ ~(run.env.prLookupFail \/ run.env.prStateFail)
    /\ run.exit = "ok"
    /\ RmWorktree \notin dirs

C16_MergedDeletesBranches ==
    RmRemovedUnflagged
        => IF BranchPRMerged(run.pre, RmWorktree)
           THEN /\ RmWorktree \in run.pre.lbr
                     => \E i \in CallsOf("delete_branch") :
                           run.calls[i].name = RmWorktree
                /\ RmWorktree \in run.pre.rbr
                     => \E i \in CallsOf("delete_remote_branch") :
                           run.calls[i].name = RmWorktree
           ELSE /\ \A i \in 1..Len(run.calls) : run.calls[i].op \notin BranchOps
                /\ lbr = run.pre.lbr
                /\ rbr = run.pre.rbr

(***************************************************************************)
(* C17: rm writes the relocation line with the main worktree's path to     *)
(* standard output exactly when the current directory is inside the        *)
(* worktree being removed and the operator confirmed the removal, and it   *)
(* writes it before the worktree is deleted; from outside that worktree it *)
(* writes no relocation line.                                              *)
(***************************************************************************)
\* the last run was an rm that found the worktree of its issue
RmFound == Ran("rm") /\ RmWorktree # <<>>

RmInside == IsInsideWorktree(run.pre, run.precwd, RmWorktree)

\* --yes was given, or the operator answered the prompt with yes
RmConfirmed == run.flags.yes \/ run.env.confirm

RelocationLines == {i \in 1..Len(run.out) : run.out[i].kind = "cd"}

\* every relocation line carries the main path and precedes every removal call
RelocationFirst ==
    \A i \in RelocationLines :
       /\ run.out[i].text = <<>>
       /\ \A j \in 1..Len(run.calls) :
             run.calls[j].op \in RemovalOps => run.out[i].at < j

C17_RelocationWhenInside ==
    RmFound
        => /\ (RelocationLines # {}) <=> (RmInside /\ RmConfirmed)
           /\ Cardinality(RelocationLines) <= 1
           /\ RelocationFirst

\* as C17, for an rm that could determine the main worktree's path: when
\* that lookup fails rm writes no relocation line and goes on
C17_RelocationWhenInsideAndMainKnown ==
    RmFound
        => /\ (RelocationLines # {})
                 <=> (RmInside /\ RmConfirmed /\ ~run.env.mainPathFail)
           /\ Cardinality(RelocationLines) <= 1
           /\ RelocationFirst

\* rm from inside the worktree wrote the line and then removed the worktree
C17_Witness ==
    /\ RmFound
    /\ RmInside
    /\ RelocationLines # {}
    /\ RmWorktree \notin dirs
    /\ \E j \in CallsOf("worktree_remove") :
          \A i \in RelocationLines : run.out[i].at < j

(***************************************************************************)
(* C18: status makes no mutating call to the VCS, the tracker or the board *)
(* and prints exactly one line for every worktree directory under the base *)
(* path, also when a sub-query for a worktree fails: a failing sub-query   *)
(* never ends the listing and never skips a worktree.                      *)
(***************************************************************************)
\* the calls that only read
ReadOps == {"git_status", "git_status_short", "rev_list", "pr_list", "pr_view"}

\* the names on the rows printed so far, in the order printed
RowNames ==
    LET rows == SelectSeq(run.st.out, LAMBDA l : l.kind = "row")
    IN  [j \in 1..Len(rows) |-> rows[j].text]

MadeSlug(d) == SubSeq(d, Len(Itoa(run.n)) + 2, Len(d))

SlugShape(slug) ==
    /\ \A i \in 1..Len(slug) :
          /\ IsLower(slug[i]) \/ IsDigit(slug[i]) \/ slug[i] = "-"
          /\ ~IsUpper(slug[i])
    /\ slug # <<>> => slug[1] # "-" /\ slug[Len(slug)] # "-"
    /\ Len(slug) <= SlugMax

C19_SlugShape ==
    run.cmd \in {"named", "parsed"}
        => /\ dirs # {}
           /\ \A d \in dirs : SlugShape(MadeSlug(d)) /\ MadeSlug(d) = Slugify(run.title)

\* the title that has a dash at SlugMax: the slug is one character shorter
C19_Witness ==
    /\ run.cmd = "named"
    /\ run.title = LongTitle
    /\ ReplaceRuns(LongTitle, FALSE)[SlugMax] = "-"
    /\ \E d \in dirs : Len(MadeSlug(d)) = SlugMax - 1

(***************************************************************************)
(* C20: FindWorktreeByIssue(base, N) returns the empty result when base    *)
(* does not exist or holds no entry named N-*, and otherwise a path        *)
(* directly under base whose basename starts with "N-"; it never returns   *)
(* the worktree of another issue whose number has N as a prefix, and with  *)
(* exactly one matching directory it returns that directory.               *)
(***************************************************************************)
\* the entries of the base path that are named N-*
NamedFor == {d \in Under(run.base) : HasPrefix(d, Itoa(run.n) \o <<"-">>)}

C20_FindByIssue ==
    run.cmd = "found"
        => /\ (run.base \notin run.disk \/ NamedFor = {}) => run.found = <<>>
           /\ NamedFor # {}
                 => /\ \E d \in NamedFor : run.found = Join(run.base, d)
                    /\ run.n = 4 => run.found # Join(run.base, <<"4", "2", "-", "x">>)
           /\ \A d \in NamedFor : NamedFor = {d} => run.found = Join(run.base, d)

(***************************************************************************)
(* C21: for every remote URL in the supported formats (scp-like            *)
(* git@host:org/repo, https://host/org/repo, proxy-style .../git/org/repo) *)
(* ParseRemoteURL returns the same (org, repo) pair for the URL with and   *)
(* without a trailing ".git".                                              *)
(***************************************************************************)
C21_SamePairWithDotGit ==
    run.cmd = "parsed"
        => /\ run.plain.ok /\ run.dotgit.ok
           /\ run.plain.org = run.dotgit.org
           /\ run.plain.repo = run.dotgit.repo

(***************************************************************************)
(* C22: in the numbered list the display numbers 1..m go to the m enabled  *)
(* options in their order and to no disabled option; input k with          *)
(* 1 <= k <= m returns the value of the k-th enabled option, and every     *)
(* other input (empty, no number, 0, k > m) gives the error "invalid       *)
(* selection" and no value; the number of options, disabled ones included, *)
(* never widens the range.                                                 *)
(***************************************************************************)
\* the enabled options, in their order
EnabledOptions == SelectSeq(run.options, LAMBDA o : ~o.disabled)

\* the number typed, 0 when the line is not a number
TypedNumber ==
    LET t == TrimSpace(run.input.text)
        digits == IF t # <<>> /\ Head(t) = "+" THEN Tail(t) ELSE t
    IN  IF digits # <<>> /\ \A i \in 1..Len(digits) : IsDigit(digits[i])
        THEN DigitsVal(digits, 0)
        ELSE 0

\* the numbers shown are 1..m, on the enabled options, in their order
NumbersOnEnabled ==
    /\ \A i \in 1..Len(run.shown) : run.options[i].disabled <=> run.shown[i].num = 0
    /\ SelectSeq([i \in 1..Len(run.shown) |-> run.shown[i].num], LAMBDA n : n > 0)
          = [d \in 1..Len(EnabledOptions) |-> d]

C22_NumberedSelection ==
    run.cmd = "numbered" /\ Len(run.options) > 0
        => /\ NumbersOnEnabled
           /\ IF run.input.err = "" /\ TypedNumber \in 1..Len(EnabledOptions)
              THEN run.result = Selected(EnabledOptions[TypedNumber].value)
              ELSE run.result = SelectErr("invalid selection")

\* the same, for a list with an enabled option and a line that was read
C22_NumberedSelectionOfEnabled ==
    run.cmd = "numbered" /\ Len(run.options) > 0
        => /\ NumbersOnEnabled
           /\ IF Len(EnabledOptions) = 0
              THEN run.result = SelectErr("no selectable options available")
              ELSE IF run.input.err # ""
              THEN run.result = SelectErr(run.input.err)
              ELSE IF TypedNumber \in 1..Len(EnabledOptions)
              THEN run.result = Selected(EnabledOptions[TypedNumber].value)
              ELSE run.result = SelectErr("invalid selection")

\* three options of which the second is disabled: "2" picks the third
C22_Witness ==
    /\ run.cmd = "numbered"
    /\ Len(run.options) = 3
    /\ run.options[2].disabled /\ ~run.options[1].disabled /\ ~run.options[3].disabled
    /\ TypedNumber = 2
    /\ run.result = Selected(run.options[3].value)

(***************************************************************************)
(* C23: with the fuzzy finder a disabled option cannot be selected: when   *)
(* the line the finder returns is the line of a disabled option, Select    *)
(* returns an error and no value; a returned value is the value of the     *)
(* enabled option whose line was chosen, and it is the same on every run   *)
(* for the same options and the same chosen line.                          *)
(***************************************************************************)
\* the options whose line the finder returned
ChosenOptions ==
    {i \in 1..Len(run.options) :
        TrimSpace(run.output.text) \in {FzfLine(run.options[i]),
                                        StripAnsi(FzfLine(run.options[i]))}}

C23_DisabledNotSelectable ==
    run.cmd = "fzf" /\ Len(run.options) > 0
        => /\ (\E i \in ChosenOptions : run.options[i].disabled)
                 => \A r \in run.results : r.err # "" /\ r.value = <<>>
           /\ \A r \in run.results :
                 r.err = "" => \E i \in ChosenOptions :
                                  ~run.options[i].disabled /\ r.value = run.options[i].value
           /\ Cardinality(run.results) = 1
           /\ run.result \in run.results

\* the operator chose the dimmed line of an issue that is held back, next
\* to an enabled issue with the same title
C23_Witness ==
    /\ run.cmd = "fzf"
    /\ Len(run.options) = 2
    /\ ~run.options[1].disabled
    /\ run.options[2].disabled
    /\ run.options[1].label = <<"#", "4", " ", "a">>
    /\ run.options[2].label = <<"#", "4", "2", " ", "a">>
    /\ ChosenOptions = {2}
    /\ run.result = SelectErr("invalid selection")

(***************************************************************************)
(* C24: FindHook returns the worktree's script if it is executable, else   *)
(* the main worktree's script if it is executable, else the global script  *)
(* if it is executable and the repository is known, else nothing; a file   *)
(* that is not executable at an earlier location never hides an executable *)
(* one at a later location, and when nothing resolves RunHook executes no  *)
(* process and reports no error.                                           *)
(***************************************************************************)
\* an executable script: a file, not a directory, with an execute bit
IsScript(entry) == entry.exists /\ ~entry.dir /\ entry.x

\* the first location with an executable script
FirstScript ==
    IF IsScript(run.fs.worktree) THEN "worktree"
    ELSE IF run.mainKnown /\ IsScript(run.fs.main) THEN "main"
    ELSE IF run.repoKnown /\ IsScript(run.fs.global) THEN "global"
    ELSE ""

BoardUpdateMissed ==
    /\ run.cmd \in WithBoard
    /\ run.cfg.projectsEnabled
    /\ CallsOf("scope_check") # {}
    /\ BoardErrs(run.env.board)

C25_BoardFailureWarned ==
    BoardUpdateMissed
        => \E i \in 1..Len(run.warns) : run.warns[i] = "Failed to update project status"

(***************************************************************************)
(* C26: clean deletes only local branches whose remote branch has been     *)
(* deleted: never main or master, never a branch with a worktree directory *)
(* under the base path, never a branch whose remote branch still exists,   *)
(* never a local branch that was never pushed; and it deletes no branch    *)
(* when the operator declines the confirmation.                            *)
(***************************************************************************)
\* the local branches the run deleted
CleanDeleted == run.pre.lbr \ lbr

C26_CleanDeletesOnlyGone ==
    run.cmd = "clean"
        => /\ \A b \in CleanDeleted :
                 /\ b \notin MainNames
                 /\ b \notin run.pre.dirs
                 /\ b \notin run.pre.rbr
                 /\ b \in run.pushed
           /\ ~run.confirm => CleanDeleted = {}

(***************************************************************************)
(* C27: for every option, an environment variable that is set decides the  *)
(* effective value whatever the config file says, also when it switches    *)
(* off an option the file enabled or switches on one the file disabled;    *)
(* when the variable is not set the file's value applies, and when neither *)
(* is present the default applies.                                         *)
(***************************************************************************)
\* what the text of a variable says
EnvSays(o) ==
    IF o \in Switches THEN run.env[o] \notin {"0", "false"} ELSE run.env[o]

C27_EnvironmentDecides ==
    run.cmd = "loaded"
        => \A o \in DOMAIN Defaults :
              run.cfg[o] = IF run.env[o] # "" THEN EnvSays(o)
                           ELSE Unmarshal(run.file)[o]

(***************************************************************************)
(* C28: in pr, when the worktree still holds uncommitted changes and the   *)
(* operator chose to continue, the final removal without force deletes     *)
(* neither the worktree directory nor the uncommitted changes; the failed  *)
(* removal is reported as a warning and pr still ends successfully.        *)
(***************************************************************************)
\* pr reached the removal of a worktree that had uncommitted changes
PrRemovedDirty ==
    /\ Ran("pr")
    /\ TargetWorktree # <<>>
    /\ TargetWorktree \in run.pre.dirty
    /\ CallsOf("worktree_remove") # {}

C28_PrKeepsUncommittedChanges ==
    PrRemovedDirty
        => /\ TargetWorktree \in dirs
           /\ TargetWorktree \in dirty
           /\ \E i \in 1..Len(run.warns) : run.warns[i] = "Failed to remove worktree"
           /\ run.exit = "ok"

(***************************************************************************)
(* C29: in pr the steps are ordered push, PR creation, board update to     *)
(* in-review, worktree removal; when the operator declines the prompt      *)
(* about uncommitted changes, or the issue fetch, the push or the PR       *)
(* creation fails, pr aborts with the worktree directory intact and with   *)
(* no board update and no later step: no PR is created after a failed      *)
(* push.                                                                   *)
(***************************************************************************)
\* pr found the worktree of its issue
PrStarted == Ran("pr") /\ TargetWorktree # <<>>

\* every call of the one kind comes before every call of the other
Before(ops, later) ==
    \A i \in 1..Len(run.calls), j \in 1..Len(run.calls) :
        (run.calls[i].op \in ops /\ run.calls[j].op \in later) => i < j

\* what makes pr give up
PrGivesUp ==
    \/ TargetWorktree \in run.pre.dirty /\ ~run.env.confirm
    \/ run.env.issueFail \/ Target.num \notin Issues
    \/ run.env.pushFail
    \/ run.env.prFail

C29_PrOrderAndAborts ==
    PrStarted
        => /\ Before({"push"}, {"pr_create"} \cup BoardOps \cup RemovalOps)
           /\ Before({"pr_create"}, BoardOps \cup RemovalOps)
           /\ Before(BoardOps, RemovalOps)
           /\ CallsOf("pr_create") # {} => CallsOf("push") # {} /\ ~run.env.pushFail
           /\ (\E i \in 1..Len(run.calls) : run.calls[i].op \in BoardOps \cup RemovalOps)
                 => CallsOf("pr_create") # {} /\ ~run.env.prFail
           /\ PrGivesUp
                 => /\ run.exit = "die"
                    /\ dirs = run.pre.dirs /\ dirty = run.pre.dirty
                    /\ \A i \in 1..Len(run.calls) :
                          run.calls[i].op \notin BoardOps \cup RemovalOps
           /\ ~PrGivesUp
                 => /\ run.exit = "ok"
                    /\ CallsOf("push") # {} /\ CallsOf("pr_create") # {}
                    /\ CallsOf("worktree_remove") # {}
                    /\ run.cfg.projectsEnabled => CallsOf("scope_check") # {}

\* the push failed: pr gave up after it, with the worktree in place
C29_Witness ==
    /\ PrStarted
    /\ run.env.pushFail
    /\ CallsOf("push") # {}
    /\ CallsOf("pr_create") = {}
    /\ run.exit = "die"
    /\ TargetWorktree \in dirs

(***************************************************************************)
(* C30: in the trunk-based merge the steps run in the order checkout main, *)
(* merge branch, push main, close issue, board to done, remove worktree,   *)
(* delete branches; a worktree with uncommitted changes, or a failure of   *)
(* checkout, merge or push, aborts the command before the issue is closed  *)
(* and before the worktree or a branch is deleted, while a failure to      *)
(* close the issue or to update the board does not stop the cleanup.       *)
(***************************************************************************)
\* the trunk-based merge found the worktree of its issue
TrunkStarted == Ran("merge_trunk") /\ TargetWorktree # <<>>

IssueOps == {"issue_comment", "issue_close"}

\* what makes the trunk-based merge give up, by the claim
TrunkGivesUp ==
    \/ TargetWorktree \in run.pre.dirty
    \/ run.env.checkoutFail
    \/ run.env.mergeFail
    \/ run.env.pushFail

C30_TrunkOrderAndAborts ==
    TrunkStarted
        => /\ Before({"checkout_main"}, {"merge_branch"})
           /\ Before({"merge_branch"}, {"push_main"})
           /\ Before({"push_main"}, IssueOps)
           /\ Before(IssueOps, BoardOps)
           /\ Before(IssueOps \cup BoardOps, RemovalOps)
           /\ Before(RemovalOps, BranchOps)
           /\ TrunkGivesUp
                 => /\ run.exit = "die"
                    /\ \A i \in 1..Len(run.calls) :
                          run.calls[i].op \notin IssueOps \cup RemovalOps \cup BranchOps
                    /\ closed = run.pre.closed
                    /\ dirs = run.pre.dirs /\ lbr = run.pre.lbr /\ rbr = run.pre.rbr
           /\ (~TrunkGivesUp /\ ~run.env.mainPathFail)
                 => /\ run.exit = "ok"
                    /\ CallsOf("checkout_main") # {} /\ CallsOf("merge_branch") # {}
                    /\ CallsOf("push_main") # {} /\ CallsOf("issue_comment") # {}
                    /\ CallsOf("worktree_remove") # {}
                    /\ CallsOf("delete_branch") # {}
                    /\ CallsOf("delete_remote_branch") # {}
                    /\ run.cfg.projectsEnabled => CallsOf("scope_check") # {}

\* the issue could not be closed and the board refused the update: the
\* worktree and the local branch are gone all the same
C30_Witness ==
    /\ TrunkStarted
    /\ run.env.closeFail
    /\ run.cfg.projectsEnabled
    /\ BoardErrs(run.env.board)
    /\ Target.num \notin closed
    /\ TargetWorktree \notin dirs
    /\ TargetWorktree \notin lbr
    /\ run.exit = "ok"

(***************************************************************************)
(* C31: UpdateIssueStatus looks for the CLI, then checks the scopes (when  *)
(* the check is enabled), then looks up the linked items, then writes item *)
(* by item; when the CLI is absent, the scope check fails or the item      *)
(* lookup fails it returns an error, and no later step and no board write  *)
(* is attempted.                                                           *)
(***************************************************************************)
ScopeOps == {"auth_status", "auth_refresh"}

ItemOps == {"board_field", "board_write"}

\* the operations of the calls a finished UpdateIssueStatus made
OpsMade == {run.calls[i].op : i \in 1..Len(run.calls)}

C31_SetStatusOrder ==
    Ran("scoped_done")
        => /\ Before({"look_path"}, ScopeOps \cup {"board_items"} \cup ItemOps)
           /\ Before(ScopeOps, {"board_items"} \cup ItemOps)
           /\ Before({"board_items"}, ItemOps)
           /\ "look_path" \in OpsMade
           /\ (run.auth.gh /\ run.cfg.checkScopes) => "auth_status" \in OpsMade
           /\ ~run.cfg.checkScopes => OpsMade \cap ScopeOps = {}
           /\ ~run.auth.gh
                 => run.err.kind = "nogh" /\ OpsMade = {"look_path"}
           /\ run.err.kind \in {"scope", "refresh"}
                 => OpsMade \cap ({"board_items"} \cup ItemOps) = {}
           /\ (run.auth.gh /\ run.cfg.checkScopes
                  /\ (run.auth.statusFail
                        \/ (~Contains(AuthStatusOutput(run.auth.scopes), ProjectWord)
                              /\ run.auth.refreshFail)))
                 => run.err.kind \in {"scope", "refresh"}
           /\ (run.auth.gh /\ run.err.kind \notin {"scope", "refresh"})
                 => "board_items" \in OpsMade
           /\ ("board_items" \in OpsMade /\ run.benv.pre = "items")
                 => run.err.kind = "items" /\ OpsMade \cap ItemOps = {}
           /\ ("board_items" \in OpsMade /\ run.benv.pre = "ok")
                 => Cardinality(CallsOf("board_field")) = Len(run.benv.outs)

\* the scope check failed: an error, and the board was never asked
C31_Witness ==
    /\ Ran("scoped_done")
    /\ run.cfg.checkScopes
    /\ run.auth.statusFail
    /\ run.err.kind = "scope"
    /\ OpsMade = {"look_path", "auth_status"}
    /\ Len(run.benv.outs) > 0

(***************************************************************************)
(* C32: with scope checking enabled UpdateIssueStatus looks up the board   *)
(* items only when the token holds the board read and the board write      *)
(* scope, from the start or after one interactive upgrade; the upgrade is  *)
(* attempted at most once and its failure makes the call fail without      *)
(* lookup or write; with scope checking disabled the token is neither      *)
(* queried nor upgraded.                                                   *)
(***************************************************************************)
C32_ItemsOnlyWithBothScopes ==
    Ran("scoped_done")
        => /\ (run.cfg.checkScopes /\ "board_items" \in OpsMade)
                 => HoldsBoardRead(run.scopes) /\ HoldsBoardWrite(run.scopes)
           /\ Cardinality(CallsOf("auth_refresh")) <= 1
           /\ ("auth_refresh" \in OpsMade /\ run.auth.refreshFail)
                 => /\ run.err # NoErr
                    /\ OpsMade \cap ({"board_items"} \cup ItemOps) = {}
           /\ ~run.cfg.checkScopes => OpsMade \cap ScopeOps = {}

(***************************************************************************)
(* C33: RemoveWorktree(path, force): whenever it returns success the       *)
(* directory no longer exists; when the removal by git fails and the       *)
(* directory still exists, recursive deletion is attempted exactly once,   *)
(* its success makes the call succeed and its failure returns an error     *)
(* naming both failures; when the removal by git fails and the directory   *)
(* is already absent, the error of git is returned and nothing is deleted. *)
(***************************************************************************)
\* git refused the removal in the call that just ended
GitRefused ==
    ~GitWorktreeRemoveOk(run.pre, run.path, run.force, run.genv.gitFail)

C33_RemoveWorktreeFallback ==
    Ran("removed")
        => /\ Cardinality(CallsOf("worktree_remove")) = 1
           /\ run.err = "" => run.path \notin dirs
           /\ (GitRefused /\ run.path \in run.pre.dirs)
                 => /\ Cardinality(CallsOf("remove_all")) = 1
                    /\ ~run.genv.rmAllFail => run.err = ""
                    /\ run.genv.rmAllFail
                          => /\ run.err = "git and manual removal failed"
                             /\ dirs = run.pre.dirs
           /\ (GitRefused /\ run.path \notin run.pre.dirs)
                 => /\ run.err = "git worktree remove failed"
                    /\ CallsOf("remove_all") = {}
                    /\ dirs = run.pre.dirs /\ wtmeta = run.pre.wtmeta
           /\ ~GitRefused => CallsOf("remove_all") = {} /\ run.err = ""
           /\ dirs \cup {run.path} = run.pre.dirs \cup {run.path}

\* git does not know the directory, which is there: it is deleted by hand
C33_Witness ==
    /\ Ran("removed")
    /\ run.path \in run.pre.dirs
    /\ run.path \notin run.pre.wtmeta
    /\ CallsOf("remove_all") # {}
    /\ run.err = ""
    /\ run.path \notin dirs

(***************************************************************************)
(* C34: after a successful resolution of a pair (projectId, fieldName)     *)
(* every later resolution of the pair in the process returns the same      *)
(* field without a remote fetch; a cache entry is never removed or         *)
(* replaced by a different field, and a failed resolution stores no entry, *)
(* so that the next call fetches again.                                    *)
(***************************************************************************)
C34_CacheKeepsField ==
    [][LET cacheKey == CacheKey(run'.project, run'.name)
       IN  /\ \A k \in DOMAIN run.cache :
                 k \in DOMAIN run'.cache /\ run'.cache[k] = run.cache[k]
           /\ cacheKey \in DOMAIN run.cache
                 => /\ run'.ok /\ ~run'.fetched
                    /\ run'.field = run.cache[cacheKey]
           /\ cacheKey \notin DOMAIN run.cache => run'.fetched
           /\ run'.ok
                 => cacheKey \in DOMAIN run'.cache /\ run'.cache[cacheKey] = run'.field
           /\ ~run'.ok => DOMAIN run'.cache = DOMAIN run.cache]_vars

\* a later call for a pair resolved before: answered from the cache
C34_Witness ==
    /\ Ran("fields")
    /\ run.n > 1
    /\ run.ok
    /\ ~run.fetched
    /\ run.cache[CacheKey(run.project, run.name)] = run.field

(***************************************************************************)
(* C35: the resolution of board fields and options ignores letter case: a  *)
(* field or option that is on the board is found under any casing of its   *)
(* name, with the identifier of the first match in board order; when no    *)
(* name matches, the resolution fails and the item is not written.         *)
(***************************************************************************)
\* the places of the entries whose name is the wanted one in some casing
Casings(entries, name) ==
    {i \in 1..Len(entries) : EqualFold(entries[i].name, name)}

FirstCasing(entries, name) ==
    entries[CHOOSE i \in Casings(entries, name) :
               \A j \in Casings(entries, name) : i <= j]

C35_NamesIgnoreCase ==
    Ran("option_done")
        => /\ Casings(run.fields, run.fieldName) # {}
                 => /\ run.res.fieldOk
                    /\ run.res.fieldId = FirstCasing(run.fields, run.fieldName).id
                    /\ LET options == FirstCasing(run.fields, run.fieldName).options
                       IN  /\ Casings(options, run.optionName) # {}
                                 => /\ run.res.optionOk
                                    /\ run.res.optionId
                                          = FirstCasing(options, run.optionName).id
                                    /\ run.res.wrote
                           /\ Casings(options, run.optionName) = {}
                                 => ~run.res.optionOk /\ ~run.res.wrote
           /\ Casings(run.fields, run.fieldName) = {}
                 => ~run.res.fieldOk /\ ~run.res.wrote

(***************************************************************************)
(* C36: the comment merge posts on issue N carries the tip commit message  *)
(* of the branch being merged, whatever directory the command is invoked   *)
(* from and whether or not the worktree still exists; the comment is       *)
(* posted before the merge call and only when that message is non-empty.   *)
(***************************************************************************)
\* the tip commit messages of the merged branch, local and on origin
TipMessages ==
    {TrimSpace(run.tips[MergedBranch]), TrimSpace(run.tips[OriginOf(MergedBranch)])}

C36_CommentCarriesTipMessage ==
    Ran("commented")
        => /\ \E m \in TipMessages :
                 \/ m = <<>> /\ CallsOf("issue_comment") = {}
                 \/ /\ m # <<>>
                    /\ Cardinality(CallsOf("issue_comment")) = 1
                    /\ \A i \in CallsOf("issue_comment") : run.calls[i].msg = m
           /\ Before({"issue_comment"}, {"merge_pr", "merge_branch"})


(***************************************************************************)
(* C37: in the issue selector of create an open issue is selectable iff no *)
(* worktree directory exists for its number and its board status is not    *)
(* the in-progress value or the override is set; an issue with a worktree  *)
(* carries the hint "already exists" and stays disabled even with the      *)
(* override.                                                               *)
(***************************************************************************)
AlreadyExistsHint ==
    <<"a", "l", "r", "e", "a", "d", "y", " ", "e", "x", "i", "s", "t", "s">>

MergeCallFailed ==
    /\ Ran("merge")
    /\ CallsOf("pr_merge") # {}
    /\ ~MergedAPR

C38_FailedMergeKeepsWorktree ==
    Ran("merge")
        => /\ MergeCallFailed
                 => /\ run.exit = "die"
                    /\ dirs = run.pre.dirs
                    /\ lbr = run.pre.lbr
                    /\ \A i \in 1..Len(run.calls) :
                          run.calls[i].op \notin BoardOps \cup RemovalOps \cup BranchOps
           /\ (\E i \in 1..Len(run.calls) : run.calls[i].op \in RemovalOps \cup BranchOps)
                 => /\ MergedAPR
                    /\ Before({"pr_merge"}, RemovalOps \cup BranchOps)

\* the merge call failed for an issue whose worktree is there: it stays
C38_Witness ==
    /\ MergeCallFailed
    /\ run.env.mergeFail
    /\ TargetWorktree # <<>>
    /\ TargetWorktree \in dirs
    /\ TargetWorktree \in lbr
    /\ run.exit = "die"

(***************************************************************************)
(* C39: under every interleaving of two concurrent create invocations for  *)
(* the same issue N, at most one invocation creates the worktree and runs  *)
(* the hook and the board update, the other returns the existing path or   *)
(* fails, and afterwards exactly one directory N-<slug> exists.            *)
(***************************************************************************)
RaceOver == \A p \in Racers : run.pc[p] = "done"

\* what holds of the two invocations whatever the count of directories
RaceOneCreator ==
    /\ Cardinality(run.created) <= 1
    /\ run.hooked \subseteq run.created
    /\ run.boarded \subseteq run.created
    /\ run.created # {} => RacePath \in dirs
    /\ \A p \in Racers \ run.created :
          /\ run.pc[p] = "done" => run.out[p] \in {"path", "die"}
          /\ run.out[p] = "path" => run.silent[p] /\ RacePath \in dirs

C39_OneDirectoryAfterRace ==
    Ran("race")
        => /\ RaceOneCreator
           /\ RaceOver => Cardinality(WorktreeMatches(dirs, RaceIssue)) = 1

\* the same, with no directory when both invocations failed before
\* creating one
C39_AtMostOneDirectoryAfterRace ==
    Ran("race")
        => /\ RaceOneCreator
           /\ Cardinality(WorktreeMatches(dirs, RaceIssue)) <= 1
           /\ (RaceOver /\ WorktreeMatches(dirs, RaceIssue) = {})
                 => \A p \in Racers : run.out[p] = "die"
           /\ (RaceOver /\ \E p \in Racers : run.out[p] = "path")
                 => WorktreeMatches(dirs, RaceIssue) = {RacePath}

\* both found no directory, one created it, the other was refused by git
C39_Witness ==
    /\ Ran("race")
    /\ RaceOver
    /\ Cardinality(run.created) = 1
    /\ \E p \in Racers \ run.created : run.how[p] # "" /\ run.out[p] = "die"
    /\ \E p \in run.created : run.out[p] = "path" /\ p \in run.boarded
    /\ WorktreeMatches(dirs, RaceIssue) = {RacePath}

(***************************************************************************)
(* C40: under every interleaving of concurrent GetProjectField calls, each *)
(* read of the cache map happens under the read lock and each store under  *)
(* the write lock, no lock is held during the remote fetch, every stored   *)
(* entry for a key (projectId, fieldName) is a field whose name equals     *)
(* fieldName ignoring case, and all locks are released when the calls      *)
(* return; two callers that both miss on the same key may each perform the *)
(* remote fetch.                                                           *)
(***************************************************************************)
\* the keys the callers of the run ask for, with the field name of each
AskedKeys == {<<KeyOf(p), run.name[p]>> : p \in Callers}

C40_CacheLocking ==
    Ran("cache")
        => /\ run.writer # NoWriter => run.readers = {}
           /\ \A p \in Callers :
                 /\ run.pc[p] \in {"read", "runlock_hit", "runlock_miss"}
                       => p \in run.readers /\ run.writer = NoWriter
                 /\ run.pc[p] \in {"store", "unlock"}
                       => run.writer = p /\ run.readers = {}
                 /\ run.pc[p] \in {"rlock", "fetch", "lock", "done"}
                       => p \notin run.readers /\ run.writer # p
           /\ \A k \in DOMAIN run.cache :
                 \E a \in AskedKeys : a[1] = k /\ EqualFold(run.cache[k].name, a[2])
           /\ (\A p \in Callers : run.pc[p] = "done")
                 => run.readers = {} /\ run.writer = NoWriter

\* both callers missed on the same key, each fetched, each stored, and the
\* locks are free again
C40_Witness ==
    /\ Ran("cache")
    /\ \A p \in Callers : run.pc[p] = "done" /\ run.res[p].ok
    /\ \A p, q \in Callers : KeyOf(p) = KeyOf(q)
    /\ run.fetched = Callers
    /\ run.readers = {} /\ run.writer = NoWriter

====
